---- MODULE Spec2Model ----
(***************************************************************************)
(* R-Info front end: the indentation-sensitive Lexer (lexer/scanner.rs),   *)
(* the recursive-descent Parser (parser/processor.rs) and the              *)
(* SemanticAnalyzer (semanticizer/analizer.rs).                            *)
(*                                                                         *)
(* Text is modelled as a sequence of one-character strings, so a lexeme is *)
(* a tuple such as <<"s","i">>.  `position` keeps the 0-based value of the *)
(* Rust code; chars[position + 1] is the character under the cursor.       *)
(***************************************************************************)
EXTENDS Integers, Sequences, FiniteSets, TLC

VARIABLES
    lexer,    \* the Lexer object, with the state of its tokenize call
    parsed,   \* what Parser::parse returned in main, NotParsed before the call
    ast,      \* the ASTNode given to SemanticAnalyzer::analyze
    analyzer, \* the SemanticAnalyzer object
    visiting, \* the section that visit_program visits next, 0 before analyze
    result    \* Some(what analyze returned), None before it returns

----------------------------------------------------------------------------
(* Character classes (char::is_whitespace, is_ascii_digit, is_alphabetic)  *)

LowerCase ==
    { "a", "b", "c", "d", "e", "f", "g", "h", "i", "j", "k", "l", "m",
      "n", "o", "p", "q", "r", "s", "t", "u", "v", "w", "x", "y", "z" }

UpperCase ==
    { "A", "B", "C", "D", "E", "F", "G", "H", "I", "J", "K", "L", "M",
      "N", "O", "P", "Q", "R", "S", "T", "U", "V", "W", "X", "Y", "Z" }

is_alphabetic(c) == c \in LowerCase \cup UpperCase

Digits == { "0", "1", "2", "3", "4", "5", "6", "7", "8", "9" }

is_ascii_digit(c) == c \in Digits

is_alphanumeric(c) == is_alphabetic(c) \/ is_ascii_digit(c)

is_whitespace(c) == c \in { " ", "\t", "\r", "\n" }

to_lowercase_char(c) ==
    CASE c = "A" -> "a" [] c = "B" -> "b" [] c = "C" -> "c" [] c = "D" -> "d"
      [] c = "E" -> "e" [] c = "F" -> "f" [] c = "G" -> "g" [] c = "H" -> "h"
      [] c = "I" -> "i" [] c = "J" -> "j" [] c = "K" -> "k" [] c = "L" -> "l"
      [] c = "M" -> "m" [] c = "N" -> "n" [] c = "O" -> "o" [] c = "P" -> "p"
      [] c = "Q" -> "q" [] c = "R" -> "r" [] c = "S" -> "s" [] c = "T" -> "t"
      [] c = "U" -> "u" [] c = "V" -> "v" [] c = "W" -> "w" [] c = "X" -> "x"
      [] c = "Y" -> "y" [] c = "Z" -> "z" [] OTHER -> c

to_lowercase(s) == [i \in 1..Len(s) |-> to_lowercase_char(s[i])]

----------------------------------------------------------------------------
(* Keywords::new (lexer/token.rs)                                          *)

basic_keywords ==
    { <<"p","r","o","c","e","s","o">>,
      <<"r","o","b","o","t">>,
      <<"v","a","r","i","a","b","l","e","s">>,
      <<"c","o","m","e","n","z","a","r">>,
      <<"f","i","n">>,
      <<"p","r","o","g","r","a","m","a">>,
      <<"p","r","o","c","e","s","o","s">>,
      <<"a","r","e","a","s">>,
      <<"r","o","b","o","t","s">> }

control_sentences ==
    { <<"s","i">>,
      <<"s","i","n","o">>,
      <<"m","i","e","n","t","r","a","s">>,
      <<"r","e","p","e","t","i","r">> }

elemental_instructions ==
    { <<"I","n","i","c","i","a","r">>,
      <<"d","e","r","e","c","h","a">>,
      <<"m","o","v","e","r">>,
      <<"t","o","m","a","r","F","l","o","r">>,
      <<"t","o","m","a","r","P","a","p","e","l">>,
      <<"d","e","p","o","s","i","t","a","r","F","l","o","r">>,
      <<"d","e","p","o","s","i","t","a","r","P","a","p","e","l">>,
      <<"P","o","s","A","v">>,
      <<"P","o","s","C","a">>,
      <<"H","a","y","F","l","o","r","E","n","L","a","B","o","l","s","a">>,
      <<"H","a","y","P","a","p","e","l","E","n","L","a","B","o","l","s","a">>,
      <<"H","a","y","F","l","o","r","E","n","L","a","E","s","q","u","i","n","a">>,
      <<"H","a","y","P","a","p","e","l","E","n","L","a","E","s","q","u","i","n","a">>,
      <<"P","o","s">>,
      <<"I","n","f","o","r","m","a","r">>,
      <<"A","s","i","g","n","a","r","A","r","e","a">>,
      <<"A","r","e","a","C">>,
      <<"A","r","e","a","P","C">>,
      <<"A","r","e","a","P">>,
      <<"L","e","e","r">>,
      <<"R","a","n","d","o","m">>,
      <<"B","l","o","q","u","e","a","r","E","s","q","u","i","n","a">>,
      <<"L","i","b","e","r","a","r","E","s","q","u","i","n","a">>,
      <<"E","n","v","i","a","r","M","e","n","s","a","j","e">>,
      <<"R","e","c","i","b","i","r","M","e","n","s","a","j","e">> }

\* keyword_map: the word's token type, "" when the word is not in the map
keyword_map(word) ==
    IF word \in elemental_instructions THEN "ElementalInstruction"
    ELSE IF word \in control_sentences THEN "ControlSentence"
    ELSE IF word \in basic_keywords THEN "Keyword"
    ELSE ""

\* types_defined: numero -> Num, booleano -> Bool, V and F -> BoolValue
types_defined(word) ==
    IF word = <<"n","u","m","e","r","o">> THEN "Num"
    ELSE IF word = <<"b","o","o","l","e","a","n","o">> THEN "Bool"
    ELSE IF word \in { <<"V">>, <<"F">> } THEN "BoolValue"
    ELSE ""

----------------------------------------------------------------------------
(* Token and CompilerError                                                 *)

Token(token_type, value, line, column) ==
    [token_type |-> token_type, value |-> value, line |-> line, column |-> column]

CompilerError(message, line, column) ==
    [message |-> message, line |-> line, column |-> column]

NoError == CompilerError("", 0, 0)

----------------------------------------------------------------------------
(* Lexer (lexer/scanner.rs).  A handler is an operator from the Lexer      *)
(* before the call to the Lexer after it; a handler that returns Err sets  *)
(* status to "err" and error to the CompilerError it returns.              *)

Lexer_new(source) ==
    [ chars          |-> source,
      position       |-> 0,
      line           |-> 1,
      column         |-> 1,
      tokens         |-> << >>,
      indent_stack   |-> << 0 >>,
      at_line_start  |-> TRUE,
      current_indent |-> 0,
      paren_stack    |-> << >>,
      status         |-> "scanning",
      error          |-> NoError ]

Fail(L, message, line, column) ==
    [L EXCEPT !.status = "err", !.error = CompilerError(message, line, column)]

Last(s) == s[Len(s)]

Pop(s) == SubSeq(s, 1, Len(s) - 1)

handle_open_parenthesis(L) ==
    [L EXCEPT !.paren_stack   = Append(@, << "(", L.line, L.column >>),
              !.tokens        = Append(@, Token("OpenedParenthesis", << "(" >>, L.line, L.column)),
              !.position      = @ + 1,
              !.column        = @ + 1,
              !.at_line_start = FALSE]

handle_close_parenthesis(L) ==
    IF L.paren_stack = << >>
    THEN Fail(L, "Parentesis de cierre sin apertura correspondiente", L.line, L.column)
    ELSE IF Last(L.paren_stack)[1] # "("
    THEN Fail(L, "Parentesis de cierre no corresponde con la apertura", L.line, L.column)
    ELSE [L EXCEPT !.paren_stack   = Pop(@),
                   !.tokens        = Append(@, Token("ClosedParenthesis", << ")" >>, L.line, L.column)),
                   !.position      = @ + 1,
                   !.column        = @ + 1,
                   !.at_line_start = FALSE]

\* mutant of check_unclosed_parentheses: an open parenthesis is let through
check_unclosed_parentheses_Skipped(L) == L

\* the first entry of the stack, if any, is the one reported
check_unclosed_parentheses(L) ==
    IF L.paren_stack # << >>
    THEN Fail(L, "Parentesis sin cerrar", L.paren_stack[1][2], L.paren_stack[1][3])
    ELSE L

newline(L) ==
    [L EXCEPT !.line = @ + 1, !.column = 1, !.position = @ + 1, !.at_line_start = TRUE]

\* mutant of IndentScan_TabAsOne: a tab counts as one space
RECURSIVE IndentScan_TabAsOne(_, _, _)
IndentScan_TabAsOne(chars, position, indent) ==
    IF position < Len(chars) /\ chars[position + 1] = " "
    THEN IndentScan_TabAsOne(chars, position + 1, indent + 1)
    ELSE IF position < Len(chars) /\ chars[position + 1] = "\t"
    THEN IndentScan_TabAsOne(chars, position + 1, indent + 1)
    ELSE [position |-> position, indent |-> indent]

\* the counting loop of handle_indentation: space = 1, tab = 4
RECURSIVE IndentScan(_, _, _)
IndentScan(chars, position, indent) ==
    IF position < Len(chars) /\ chars[position + 1] = " "
    THEN IndentScan(chars, position + 1, indent + 1)
    ELSE IF position < Len(chars) /\ chars[position + 1] = "\t"
    THEN IndentScan(chars, position + 1, indent + 4)
    ELSE [position |-> position, indent |-> indent]

\* mutant of DedentLoop_NoCheck: a level between two entries of the stack is accepted
RECURSIVE DedentLoop_NoCheck(_, _)
DedentLoop_NoCheck(L, indent) ==
    IF L.indent_stack = << >> THEN L
    ELSE IF Last(L.indent_stack) <= indent
    THEN L
    ELSE DedentLoop_NoCheck([L EXCEPT !.tokens = Append(@, Token("Dedent", << >>, L.line, 1)),
                              !.indent_stack = Pop(@)],
                    indent)

\* the `while let Some(&stack_indent)` loop of handle_indentation
RECURSIVE DedentLoop(_, _)
DedentLoop(L, indent) ==
    IF L.indent_stack = << >> THEN L
    ELSE IF Last(L.indent_stack) <= indent
    THEN IF Last(L.indent_stack) < indent
         THEN Fail(L, "Indentacion inconsistente", L.line, 1)
         ELSE L
    ELSE DedentLoop([L EXCEPT !.tokens = Append(@, Token("Dedent", << >>, L.line, 1)),
                              !.indent_stack = Pop(@)],
                    indent)

\* mutant of handle_indentation: at_line_start stays set after a line that
\* is not blank
handle_indentation_KeepsLineStart(L) ==
    LET scan == IndentScan(L.chars, L.position, 0)
        indent == scan.indent
        L1 == [L EXCEPT !.position = scan.position,
                        !.column = @ + (scan.position - L.position)]
        last_indent == Last(L1.indent_stack)
        L2 == IF indent # L1.current_indent
              THEN IF indent > last_indent
                   THEN [L1 EXCEPT !.tokens = Append(@, Token("Indent", << >>, L1.line, 1)),
                                   !.indent_stack = Append(@, indent)]
                   ELSE IF indent < last_indent
                   THEN DedentLoop(L1, indent)
                   ELSE L1
              ELSE L1
    IN  IF L1.position >= Len(L1.chars) \/ L1.chars[L1.position + 1] = "\n"
        THEN [L1 EXCEPT !.at_line_start = FALSE]
        ELSE IF L2.status = "err" THEN L2
        ELSE [L2 EXCEPT !.current_indent = indent]

\* mutant of handle_indentation: the Indent token is pushed, its level is not
handle_indentation_LevelNotPushed(L) ==
    LET scan == IndentScan(L.chars, L.position, 0)
        indent == scan.indent
        L1 == [L EXCEPT !.position = scan.position,
                        !.column = @ + (scan.position - L.position)]
        last_indent == Last(L1.indent_stack)
        L2 == IF indent # L1.current_indent
              THEN IF indent > last_indent
                   THEN [L1 EXCEPT !.tokens = Append(@, Token("Indent", << >>, L1.line, 1))]
                   ELSE IF indent < last_indent
                   THEN DedentLoop(L1, indent)
                   ELSE L1
              ELSE L1
    IN  IF L1.position >= Len(L1.chars) \/ L1.chars[L1.position + 1] = "\n"
        THEN [L1 EXCEPT !.at_line_start = FALSE]
        ELSE IF L2.status = "err" THEN L2
        ELSE [L2 EXCEPT !.at_line_start = FALSE, !.current_indent = indent]

handle_indentation(L) ==
    LET scan == IndentScan(L.chars, L.position, 0)
        indent == scan.indent
        L1 == [L EXCEPT !.position = scan.position,
                        !.column = @ + (scan.position - L.position)]
        last_indent == Last(L1.indent_stack)
        L2 == IF indent # L1.current_indent
              THEN IF indent > last_indent
                   THEN [L1 EXCEPT !.tokens = Append(@, Token("Indent", << >>, L1.line, 1)),
                                   !.indent_stack = Append(@, indent)]
                   ELSE IF indent < last_indent
                   THEN DedentLoop(L1, indent)
                   ELSE L1
              ELSE L1
    IN  IF L1.position >= Len(L1.chars) \/ L1.chars[L1.position + 1] = "\n"
        THEN [L1 EXCEPT !.at_line_start = FALSE]
        ELSE IF L2.status = "err" THEN L2
        ELSE [L2 EXCEPT !.at_line_start = FALSE, !.current_indent = indent]

is_operator(c) == c \in { "+", "-", "*", "/", "=", "<", ">", "&", "|", "~" }

RECURSIVE skip_whitespace_only(_)
skip_whitespace_only(L) ==
    IF L.position < Len(L.chars)
       /\ is_whitespace(L.chars[L.position + 1])
       /\ L.chars[L.position + 1] # "\n"
    THEN skip_whitespace_only([L EXCEPT !.position = @ + 1,
                                        !.column = @ + 1,
                                        !.at_line_start = FALSE])
    ELSE L

\* end of the run of characters of `class` that starts at `position`
RECURSIVE RunEnd(_, _, _)
RunEnd(chars, position, class) ==
    IF position < Len(chars) /\ chars[position + 1] \in class
    THEN RunEnd(chars, position + 1, class)
    ELSE position

read_number(L) ==
    LET end == RunEnd(L.chars, L.position, Digits)
        value == SubSeq(L.chars, L.position + 1, end)
    IN  [L EXCEPT !.tokens = Append(@, Token("Num", value, L.line, L.column)),
                  !.column = @ + (end - L.position),
                  !.position = end]

is_boolean_literal(value) ==
    to_lowercase(value) \in
        { <<"t","r","u","e">>, <<"f","a","l","s","e">>,
          <<"v","e","r","d","a","d","e","r","o">>, <<"f","a","l","s","o">>,
          <<"v">>, <<"f">> }

\* mutant of determine_identifier_type: the reserved words are matched in any case
determine_identifier_type_AnyCase(value) ==
    IF keyword_map(to_lowercase(value)) # "" THEN keyword_map(to_lowercase(value))
    ELSE IF types_defined(value) # "" THEN types_defined(value)
    ELSE IF is_boolean_literal(value) THEN "Bool"
    ELSE "Identifier"

determine_identifier_type(value) ==
    IF keyword_map(value) # "" THEN keyword_map(value)
    ELSE IF types_defined(value) # "" THEN types_defined(value)
    ELSE IF is_boolean_literal(value) THEN "Bool"
    ELSE "Identifier"

IdentifierChars == LowerCase \cup UpperCase \cup Digits \cup { "_" }

\* read_identifier, with the `at_line_start = false` of its match arm
read_identifier(L) ==
    LET end == RunEnd(L.chars, L.position, IdentifierChars)
        value == SubSeq(L.chars, L.position + 1, end)
    IN  [L EXCEPT !.tokens = Append(@, Token(determine_identifier_type(value),
                                             value, L.line, L.column)),
                  !.column = @ + (end - L.position),
                  !.position = end,
                  !.at_line_start = FALSE]

Escaped(c) ==
    CASE c = "n" -> "\n" [] c = "t" -> "\t" [] c = "r" -> "\r"
      [] c = "\\" -> "\\" [] c = "'" -> "'" [] c = "\"" -> "\"" [] OTHER -> ""

IsEscape(c) == c \in { "n", "t", "r", "\\", "'", "\"" }

\* the scanning loop of read_string; err is "" unless an escape fails
RECURSIVE StringScan(_, _, _, _, _)
StringScan(chars, position, column, value, quote) ==
    IF position < Len(chars) /\ chars[position + 1] # quote
    THEN IF chars[position + 1] = "\\"
         THEN IF position + 1 >= Len(chars)
              THEN [position |-> position + 1, column |-> column + 1, value |-> value,
                    err |-> "Secuencia de escape incompleta"]
              ELSE IF ~IsEscape(chars[position + 2])
              THEN [position |-> position + 1, column |-> column + 1, value |-> value,
                    err |-> "Secuencia de escape desconocida"]
              ELSE StringScan(chars, position + 2, column + 2,
                              Append(value, Escaped(chars[position + 2])), quote)
         ELSE StringScan(chars, position + 1, column + 1,
                         Append(value, chars[position + 1]), quote)
    ELSE [position |-> position, column |-> column, value |-> value, err |-> ""]

read_string(L) ==
    LET quote == L.chars[L.position + 1]
        scan == StringScan(L.chars, L.position + 1, L.column + 1, << >>, quote)
        L1 == [L EXCEPT !.position = scan.position, !.column = scan.column]
    IN  IF scan.err # "" THEN Fail(L1, scan.err, L1.line, L1.column)
        ELSE IF scan.position >= Len(L.chars)
        THEN Fail(L1, "Cadena sin cerrar", L.line, L.column)
        ELSE [L1 EXCEPT !.position = @ + 1,
                        !.column = @ + 1,
                        !.tokens = Append(@, Token("Str", scan.value, L.line, L.column))]

TwoCharOperator(op) ==
    CASE op = << ":", "=" >> -> "Assign"
      [] op = << "<", ">" >> -> "NotEquals"
      [] op = << "<", "=" >> -> "LessEqual"
      [] op = << ">", "=" >> -> "GreaterEqual"
      [] op = << "=", "=" >> -> "Equals"
      [] OTHER -> ""

OneCharOperator(c) ==
    CASE c = "," -> "Comma"
      [] c = ":" -> "Declaration"
      [] c = "&" -> "And"
      [] c = "|" -> "Or"
      [] c = "~" -> "Not"
      [] c = "+" -> "Plus"
      [] c = "-" -> "Minus"
      [] c = "*" -> "Multiply"
      [] c = "/" -> "Divide"
      [] c = "=" -> "Equals"
      [] c = "<" -> "Less"
      [] c = ">" -> "Greater"
      [] OTHER -> ""

read_operator(L) ==
    LET first_char == L.chars[L.position + 1]
        two == IF L.position + 1 < Len(L.chars)
               THEN TwoCharOperator(<< first_char, L.chars[L.position + 2] >>)
               ELSE ""
        consumed == IF two # "" THEN 2 ELSE 1
        token_type == IF two # "" THEN two ELSE OneCharOperator(first_char)
    IN  IF token_type = ""
        THEN Fail(L, "Operador no reconocido", L.line, L.column)
        ELSE [L EXCEPT !.tokens = Append(@, Token(token_type,
                                                  SubSeq(L.chars, L.position + 1,
                                                         L.position + consumed),
                                                  L.line, L.column)),
                       !.position = @ + consumed,
                       !.column = @ + consumed,
                       !.at_line_start = FALSE]

\* the scanning loop of read_comment
RECURSIVE CommentScan(_, _, _, _)
CommentScan(chars, position, line, column) ==
    IF position < Len(chars) /\ chars[position + 1] # "}"
    THEN IF chars[position + 1] = "\n"
         THEN CommentScan(chars, position + 1, line + 1, 1)
         ELSE CommentScan(chars, position + 1, line, column + 1)
    ELSE [position |-> position, line |-> line, column |-> column]

\* mutant of read_comment: the error is located where the scan ended
read_comment_ErrorAtEnd(L) ==
    LET scan == CommentScan(L.chars, L.position + 1, L.line, L.column + 1)
        L1 == [L EXCEPT !.position = scan.position,
                        !.line = scan.line,
                        !.column = scan.column]
    IN  IF scan.position >= Len(L.chars)
        THEN Fail(L1, "Comentario sin cerrar", L1.line, L1.column)
        ELSE [L1 EXCEPT !.position = @ + 1, !.column = @ + 1]

read_comment(L) ==
    LET scan == CommentScan(L.chars, L.position + 1, L.line, L.column + 1)
        L1 == [L EXCEPT !.position = scan.position,
                        !.line = scan.line,
                        !.column = scan.column]
    IN  IF scan.position >= Len(L.chars)
        THEN Fail(L1, "Comentario sin cerrar", L.line, L.column)
        ELSE [L1 EXCEPT !.position = @ + 1, !.column = @ + 1]

unexpected_character(L) == Fail(L, "Caracter inesperado", L.line, L.column)

\* mutant of DrainIndents: the final Dedent tokens are forgotten
DrainIndents_Forgotten(L) == L

\* the final DEDENT loop of tokenize
RECURSIVE DrainIndents(_)
DrainIndents(L) ==
    IF Len(L.indent_stack) > 1
    THEN DrainIndents([L EXCEPT !.tokens = Append(@, Token("Dedent", << >>, L.line, 1)),
                                !.indent_stack = Pop(@)])
    ELSE L

\* tokenize after its main loop: unclosed parentheses, final Dedents, EndFile
end_of_input(L) ==
    LET checked == check_unclosed_parentheses(L)
        drained == DrainIndents(L)
    IN  IF checked.status = "err" THEN checked
        ELSE [drained EXCEPT !.tokens = Append(@, Token("EndFile", << >>,
                                                        drained.line, drained.column)),
                             !.status = "ok"]

\* the arm of tokenize's `match char` taken in lexer state L
Arm(L) ==
    IF L.status # "scanning" THEN "returned"
    ELSE IF L.position >= Len(L.chars) THEN "end_of_input"
    ELSE LET c == L.chars[L.position + 1]
         IN  IF c = "{" THEN "comment"
             ELSE IF c = "(" THEN "open_parenthesis"
             ELSE IF c = ")" THEN "close_parenthesis"
             ELSE IF c = "\n" THEN "newline"
             ELSE IF is_whitespace(c) /\ c # "\n"
                  THEN IF L.at_line_start THEN "indentation" ELSE "skip_whitespace"
             ELSE IF is_ascii_digit(c) THEN "number"
             ELSE IF is_alphabetic(c) \/ c = "_" THEN "identifier"
             ELSE IF c \in { "\"", "'" } THEN "string"
             ELSE IF is_operator(c) \/ c = "," \/ c = ":" THEN "operator"
             ELSE "unexpected"

\* Result<Vec<Token>, CompilerError> returned by tokenize
tokenize_result(L) ==
    IF L.status = "ok" THEN [ok |-> TRUE, tokens |-> L.tokens, error |-> NoError]
    ELSE [ok |-> FALSE, tokens |-> << >>, error |-> L.error]

\* one iteration of the main loop of tokenize: the handler of the arm taken
Step(L) ==
    CASE Arm(L) = "comment" -> read_comment(L)
      [] Arm(L) = "open_parenthesis" -> handle_open_parenthesis(L)
      [] Arm(L) = "close_parenthesis" -> handle_close_parenthesis(L)
      [] Arm(L) = "newline" -> newline(L)
      [] Arm(L) = "indentation" -> handle_indentation(L)
      [] Arm(L) = "skip_whitespace" -> skip_whitespace_only(L)
      [] Arm(L) = "number" -> read_number(L)
      [] Arm(L) = "identifier" -> read_identifier(L)
      [] Arm(L) = "string" -> read_string(L)
      [] Arm(L) = "operator" -> read_operator(L)
      [] Arm(L) = "unexpected" -> unexpected_character(L)
      [] Arm(L) = "end_of_input" -> end_of_input(L)

RECURSIVE tokenize(_)
\* a whole call of tokenize: the main loop run until it returns
tokenize(L) == IF Arm(L) = "returned" THEN L ELSE tokenize(Step(L))

----------------------------------------------------------------------------
(* Parser (parser/processor.rs).  The parser state is the token slice and  *)
(* `cur`, the index of `current` in it; cur = Len(toks) + 1 stands for     *)
(* current = None.  A parsing function returns [res, val, cur, error]:     *)
(* res = "ok" with the value, "err" with the CompilerError, or "panic"     *)
(* when the code unwraps a None; cur is the parser position it leaves.     *)

I32Max == 2147483647

Ok(val, cur) == [res |-> "ok", val |-> val, cur |-> cur, error |-> NoError]

Err(message, line, column, cur) ==
    [res |-> "err", val |-> << >>, cur |-> cur, error |-> CompilerError(message, line, column)]

Panic(cur) == [res |-> "panic", val |-> << >>, cur |-> cur, error |-> NoError]

\* the `?` operator: a failed result leaves the enclosing function as it is
Propagate(r) == [res |-> r.res, val |-> << >>, cur |-> r.cur, error |-> r.error]

HasCurrent(toks, cur) == cur <= Len(toks)

avanzar(toks, cur) == IF cur <= Len(toks) THEN cur + 1 ELSE cur

coincidir(toks, cur, tipo) == HasCurrent(toks, cur) /\ toks[cur].token_type = tipo

consumir(toks, cur, tipo, mensaje) ==
    IF coincidir(toks, cur, tipo) THEN Ok(<< >>, avanzar(toks, cur))
    ELSE IF ~HasCurrent(toks, cur) THEN Panic(cur)
    ELSE Err(<< mensaje, ": esperado ", tipo >>, toks[cur].line, toks[cur].column, cur)

\* str::parse::<i32>().unwrap_or(0) on a lexeme
RECURSIVE DigitsValue(_, _)
DigitsValue(value, acc) ==
    IF value = << >> THEN acc
    ELSE IF acc > I32Max THEN acc
    ELSE DigitsValue(Tail(value),
                     10 * acc + (CHOOSE d \in 0..9 :
                                    Head(value) = <<"0","1","2","3","4","5","6","7","8","9">>[d + 1]))

ParseI32(value) ==
    IF value = << >> \/ \E i \in 1..Len(value) : ~is_ascii_digit(value[i]) THEN 0
    ELSE IF DigitsValue(value, 0) > I32Max THEN 0
    ELSE DigitsValue(value, 0)

Identificador(nombre) == [tipo |-> "Identificador", nombre |-> nombre]

Numero(valor) == [tipo |-> "Numero", valor |-> valor]

Booleano(valor) == [tipo |-> "Booleano", valor |-> valor]

Binaria(izquierda, operador, derecha) ==
    [tipo |-> "Binaria", izquierda |-> izquierda, operador |-> operador, derecha |-> derecha]

Asignacion(variable, valor) == [tipo |-> "Asignacion", variable |-> variable, valor |-> valor]

LlamadaFuncion(nombre, argumentos) ==
    [tipo |-> "LlamadaFuncion", nombre |-> nombre, argumentos |-> argumentos]

Si(condicion, entonces, sino) ==
    [tipo |-> "Si", condicion |-> condicion, entonces |-> entonces, sino |-> sino]

Mientras(condicion, cuerpo) == [tipo |-> "Mientras", condicion |-> condicion, cuerpo |-> cuerpo]

Repetir(condicion, cuerpo) == [tipo |-> "Repetir", condicion |-> condicion, cuerpo |-> cuerpo]

es_operador_binario(token) ==
    token.token_type \in { "Plus", "Minus", "Multiply", "Divide", "Less", "LessEqual",
                           "Greater", "GreaterEqual", "Equals", "NotEquals", "And", "Or" }

OperadorDe(token_type) ==
    CASE token_type = "Plus" -> "+"
      [] token_type = "Minus" -> "-"
      [] token_type = "Multiply" -> "*"
      [] token_type = "Divide" -> "/"
      [] token_type = "Less" -> "<"
      [] token_type = "LessEqual" -> "<="
      [] token_type = "Greater" -> ">"
      [] token_type = "GreaterEqual" -> ">="
      [] token_type = "Equals" -> "=="
      [] token_type = "NotEquals" -> "<>"
      [] token_type = "And" -> "&"
      [] token_type = "Or" -> "|"

parse_operador_binario(toks, cur) ==
    IF ~HasCurrent(toks, cur) THEN Err("Se esperaba operador binario", 0, 0, cur)
    ELSE IF es_operador_binario(toks[cur])
    THEN Ok(OperadorDe(toks[cur].token_type), avanzar(toks, cur))
    ELSE Err("Se esperaba operador binario", toks[cur].line, toks[cur].column, cur)

\* the words the parser compares token values with, and the name it gives the main robot
Kw ==
    [programa |-> <<"p","r","o","g","r","a","m","a">>,
     comenzar |-> <<"c","o","m","e","n","z","a","r">>,
     fin |-> <<"f","i","n">>,
     variables |-> <<"v","a","r","i","a","b","l","e","s">>,
     procesos |-> <<"p","r","o","c","e","s","o","s">>,
     proceso |-> <<"p","r","o","c","e","s","o">>,
     areas |-> <<"a","r","e","a","s">>,
     robots |-> <<"r","o","b","o","t","s">>,
     robot |-> <<"r","o","b","o","t">>,
     si |-> <<"s","i">>,
     sino |-> <<"s","i","n","o">>,
     mientras |-> <<"m","i","e","n","t","r","a","s">>,
     repetir |-> <<"r","e","p","e","t","i","r">>,
     main |-> <<"m","a","i","n">>]

\* `let x = r?; rest`: a failed r leaves the function, else the rest runs on it
Bind(r, Rest(_)) == IF r.res # "ok" THEN Propagate(r) ELSE Rest(r)

\* `if let Ok(x) = r { ok_arm } else { err_arm }`; a panic in r unwinds
IfLetOk(r, OkArm(_), ErrArm(_)) ==
    IF r.res = "panic" THEN Propagate(r)
    ELSE IF r.res = "ok" THEN OkArm(r)
    ELSE ErrArm(r)

RECURSIVE parse_expresion_simple(_, _)
RECURSIVE parse_expresion_linea_completa(_, _, _)
RECURSIVE ExpresionLoop(_, _, _, _)
RECURSIVE parse_lista_argumentos(_, _, _)
RECURSIVE parse_instruccion(_, _)
RECURSIVE EntoncesLoop(_, _, _)
RECURSIVE CuerpoLoop(_, _, _)

parse_expresion(toks, cur) ==
    IF HasCurrent(toks, cur)
    THEN parse_expresion_linea_completa(toks, cur, toks[cur].line)
    ELSE Err("Se esperaba una expresion", 0, 0, cur)

\* argumentos is the Vec built so far, << >> at the call
parse_lista_argumentos(toks, cur, argumentos) ==
    IF ~HasCurrent(toks, cur) THEN Ok(argumentos, cur)
    ELSE IF toks[cur].token_type = "ClosedParenthesis" THEN Ok(argumentos, cur)
    ELSE Bind(parse_expresion(toks, cur),
              LAMBDA e :
                parse_lista_argumentos(
                    toks,
                    IF coincidir(toks, e.cur, "Comma") THEN avanzar(toks, e.cur) ELSE e.cur,
                    Append(argumentos, e.val)))

\* `( args )` after a callee name, or no arguments at all
ArgumentosOpcionales(toks, cur) ==
    IF coincidir(toks, cur, "OpenedParenthesis")
    THEN Bind(parse_lista_argumentos(toks, avanzar(toks, cur), << >>),
              LAMBDA args :
                Bind(consumir(toks, args.cur, "ClosedParenthesis", "Esperado ')'"),
                     LAMBDA close : Ok(args.val, close.cur)))
    ELSE Ok(<< >>, cur)

parse_expresion_simple(toks, cur) ==
    IF ~HasCurrent(toks, cur) THEN Err("Se esperaba una expresion simple", 0, 0, cur)
    ELSE LET token == toks[cur] IN
      CASE token.token_type = "Identifier" ->
             Ok(Identificador(token.value), avanzar(toks, cur))
        [] token.token_type = "Num" ->
             Ok(Numero(ParseI32(token.value)), avanzar(toks, cur))
        [] token.token_type = "BoolValue" ->
             Ok(Booleano(token.value = << "V" >>), avanzar(toks, cur))
        [] token.token_type = "ElementalInstruction" ->
             Bind(ArgumentosOpcionales(toks, avanzar(toks, cur)),
                  LAMBDA args :
                    IF args.val = << >>
                    THEN Ok(Identificador(token.value), args.cur)
                    ELSE Ok(Identificador(token.value \o << "(", ".", ".", ".", ")" >>),
                            args.cur))
        [] token.token_type = "OpenedParenthesis" ->
             Bind(parse_expresion_linea_completa(toks, avanzar(toks, cur), token.line),
                  LAMBDA expr :
                    Bind(consumir(toks, expr.cur, "ClosedParenthesis", "Esperado ')'"),
                         LAMBDA close : Ok(expr.val, close.cur)))
        [] OTHER -> Err("Expresion simple no valida", token.line, token.column, cur)

parse_expresion_linea_completa(toks, cur, start_line) ==
    Bind(parse_expresion_simple(toks, cur),
         LAMBDA first : ExpresionLoop(toks, first.cur, start_line, first.val))

\* the `while let Some(token)` loop of parse_expresion_linea_completa
ExpresionLoop(toks, cur, start_line, expr) ==
    IF ~HasCurrent(toks, cur) THEN Ok(expr, cur)
    ELSE IF toks[cur].line # start_line THEN Ok(expr, cur)
    ELSE IF toks[cur].token_type \in { "Indent", "Dedent", "Keyword" }
            \/ (toks[cur].token_type = "ControlSentence"
                /\ toks[cur].value \in { Kw.si, Kw.mientras,
                                         Kw.repetir, Kw.sino })
    THEN Ok(expr, cur)
    ELSE IF es_operador_binario(toks[cur])
    THEN Bind(parse_operador_binario(toks, cur),
              LAMBDA operador :
                Bind(parse_expresion_simple(toks, operador.cur),
                     LAMBDA derecha :
                       ExpresionLoop(toks, derecha.cur, start_line,
                                     Binaria(expr, operador.val, derecha.val))))
    ELSE Ok(expr, cur)

\* the body loop of parse_mientras and parse_repetir, and the `sino` loop of
\* parse_si: stop at a Dedent, skip an Indent, skip a token on a failed statement
CuerpoLoop(toks, cur, cuerpo) ==
    IF ~HasCurrent(toks, cur) THEN Ok(cuerpo, cur)
    ELSE IF toks[cur].token_type = "Dedent" THEN Ok(cuerpo, cur)
    ELSE IF toks[cur].token_type = "Indent" THEN CuerpoLoop(toks, avanzar(toks, cur), cuerpo)
    ELSE IfLetOk(parse_instruccion(toks, cur),
                 LAMBDA instr : CuerpoLoop(toks, instr.cur, Append(cuerpo, instr.val)),
                 LAMBDA failed : CuerpoLoop(toks, avanzar(toks, failed.cur), cuerpo))

\* the `entonces` loop of parse_si: as CuerpoLoop, and `sino` is consumed and ends it
EntoncesLoop(toks, cur, entonces) ==
    IF ~HasCurrent(toks, cur) THEN Ok(entonces, cur)
    ELSE IF toks[cur].token_type = "ControlSentence" /\ toks[cur].value = Kw.sino
    THEN Ok(entonces, avanzar(toks, cur))
    ELSE IF toks[cur].token_type = "Dedent" THEN Ok(entonces, cur)
    ELSE IF toks[cur].token_type = "Indent" THEN EntoncesLoop(toks, avanzar(toks, cur), entonces)
    ELSE IfLetOk(parse_instruccion(toks, cur),
                 LAMBDA instr : EntoncesLoop(toks, instr.cur, Append(entonces, instr.val)),
                 LAMBDA failed : EntoncesLoop(toks, avanzar(toks, failed.cur), entonces))

parse_si(toks, cur) ==
    Bind(parse_expresion(toks, avanzar(toks, cur)),
         LAMBDA condicion :
           Bind(EntoncesLoop(toks, condicion.cur, << >>),
                LAMBDA entonces :
                  Bind(CuerpoLoop(toks, entonces.cur, << >>),
                       LAMBDA sino :
                         Ok(Si(condicion.val, entonces.val, sino.val), sino.cur))))

\* the condition of parse_mientras: `( e )` or e
CondicionMientras(toks, cur) ==
    IF coincidir(toks, cur, "OpenedParenthesis")
    THEN Bind(parse_expresion(toks, avanzar(toks, cur)),
              LAMBDA cond :
                Bind(consumir(toks, cond.cur, "ClosedParenthesis", "Esperado ')'"),
                     LAMBDA close : Ok(cond.val, close.cur)))
    ELSE parse_expresion(toks, cur)

parse_mientras(toks, cur) ==
    Bind(CondicionMientras(toks, avanzar(toks, cur)),
         LAMBDA condicion :
           Bind(CuerpoLoop(toks, condicion.cur, << >>),
                LAMBDA cuerpo : Ok(Mientras(condicion.val, cuerpo.val), cuerpo.cur)))

parse_repetir(toks, cur) ==
    Bind(parse_expresion(toks, avanzar(toks, cur)),
         LAMBDA condicion :
           Bind(CuerpoLoop(toks, condicion.cur, << >>),
                LAMBDA cuerpo : Ok(Repetir(condicion.val, cuerpo.val), cuerpo.cur)))

parse_instruccion(toks, cur) ==
    IF ~HasCurrent(toks, cur) THEN Err("Se esperaba una instruccion", 0, 0, cur)
    ELSE LET token == toks[cur]
             cur1 == avanzar(toks, cur)
         IN
      CASE token.token_type = "Identifier" ->
             IF coincidir(toks, cur1, "Assign")
             THEN Bind(parse_expresion_linea_completa(toks, avanzar(toks, cur1), token.line),
                       LAMBDA valor : Ok(Asignacion(token.value, valor.val), valor.cur))
             ELSE Bind(ArgumentosOpcionales(toks, cur1),
                       LAMBDA args : Ok(LlamadaFuncion(token.value, args.val), args.cur))
        [] token.token_type = "ElementalInstruction" ->
             Bind(ArgumentosOpcionales(toks, cur1),
                  LAMBDA args : Ok(LlamadaFuncion(token.value, args.val), args.cur))
        [] token.token_type = "ControlSentence" ->
             IF token.value = Kw.si THEN parse_si(toks, cur)
             ELSE IF token.value = Kw.mientras THEN parse_mientras(toks, cur)
             ELSE IF token.value = Kw.repetir THEN parse_repetir(toks, cur)
             ELSE Err("Instruccion de control desconocida", token.line, token.column, cur)
        [] OTHER -> Err("Instruccion no reconocida", token.line, token.column, cur)

IsKeyword(toks, cur, word) ==
    HasCurrent(toks, cur) /\ toks[cur].token_type = "Keyword" /\ toks[cur].value = word

IsLayout(toks, cur) == HasCurrent(toks, cur) /\ toks[cur].token_type \in { "Indent", "Dedent" }

RECURSIVE InstruccionesLoop(_, _, _)
\* the `comenzar` ... `fin` loop of parse_programa, parse_proceso and parse_robots
InstruccionesLoop(toks, cur, instrucciones) ==
    IF ~HasCurrent(toks, cur) THEN Ok(instrucciones, cur)
    ELSE IF IsKeyword(toks, cur, Kw.fin) THEN Ok(instrucciones, avanzar(toks, cur))
    ELSE IF IsLayout(toks, cur) THEN InstruccionesLoop(toks, avanzar(toks, cur), instrucciones)
    ELSE IfLetOk(parse_instruccion(toks, cur),
                 LAMBDA instr :
                   InstruccionesLoop(toks, instr.cur, Append(instrucciones, instr.val)),
                 LAMBDA failed :
                   InstruccionesLoop(toks, avanzar(toks, failed.cur), instrucciones))

BloqueInstrucciones(toks, cur) ==
    IF IsKeyword(toks, cur, Kw.comenzar)
    THEN InstruccionesLoop(toks, avanzar(toks, cur), << >>)
    ELSE Ok(<< >>, cur)

parse_variable(toks, cur) ==
    IF ~HasCurrent(toks, cur) THEN Err("Esperado nombre de variable", 0, 0, cur)
    ELSE Bind(consumir(toks, avanzar(toks, cur), "Declaration", "Esperado ':'"),
              LAMBDA colon :
                IF ~HasCurrent(toks, colon.cur)
                THEN Err("Esperado tipo de dato", 0, 0, colon.cur)
                ELSE Ok([nombre |-> toks[cur].value, tipo_dato |-> toks[colon.cur].value],
                        avanzar(toks, colon.cur)))

RECURSIVE VariablesLoop(_, _, _)
\* the `variables` loop of parse_proceso and parse_robots
VariablesLoop(toks, cur, variables) ==
    IF ~HasCurrent(toks, cur) THEN Ok(variables, cur)
    ELSE IF IsKeyword(toks, cur, Kw.comenzar) THEN Ok(variables, cur)
    ELSE IF IsLayout(toks, cur) THEN VariablesLoop(toks, avanzar(toks, cur), variables)
    ELSE IF toks[cur].token_type = "Identifier"
    THEN Bind(parse_variable(toks, cur),
              LAMBDA v : VariablesLoop(toks, v.cur, Append(variables, v.val)))
    ELSE VariablesLoop(toks, avanzar(toks, cur), variables)

BloqueVariables(toks, cur) ==
    IF IsKeyword(toks, cur, Kw.variables)
    THEN VariablesLoop(toks, avanzar(toks, cur), << >>)
    ELSE Ok(<< >>, cur)

RECURSIVE ParametrosLoop(_, _, _)
ParametrosLoop(toks, cur, parametros) ==
    IF ~HasCurrent(toks, cur) THEN Ok(parametros, cur)
    ELSE IF toks[cur].token_type = "ClosedParenthesis" THEN Ok(parametros, avanzar(toks, cur))
    ELSE LET con_tipo == toks[cur].token_type = "ParameterType"
             tipo_param == IF con_tipo THEN toks[cur].value ELSE << "E" >>
             cur1 == IF con_tipo THEN avanzar(toks, cur) ELSE cur
         IN  IF ~HasCurrent(toks, cur1) THEN Err("Esperado nombre del parametro", 0, 0, cur1)
             ELSE Bind(consumir(toks, avanzar(toks, cur1), "Declaration", "Esperado ':'"),
                       LAMBDA colon :
                         IF ~HasCurrent(toks, colon.cur)
                         THEN Err("Esperado tipo de dato", 0, 0, colon.cur)
                         ELSE ParametrosLoop(
                                  toks,
                                  IF coincidir(toks, avanzar(toks, colon.cur), "Comma")
                                  THEN avanzar(toks, avanzar(toks, colon.cur))
                                  ELSE avanzar(toks, colon.cur),
                                  Append(parametros, [tipo |-> tipo_param,
                                                      nombre |-> toks[cur1].value,
                                                      tipo_dato |-> toks[colon.cur].value])))

\* the parameter list of parse_proceso: `( ... )` or nothing
BloqueParametros(toks, cur) ==
    IF coincidir(toks, cur, "OpenedParenthesis")
    THEN ParametrosLoop(toks, avanzar(toks, cur), << >>)
    ELSE Ok(<< >>, cur)

parse_proceso(toks, cur) ==
    Bind(consumir(toks, cur, "Keyword", "Esperado 'proceso'"),
         LAMBDA kw :
           IF ~HasCurrent(toks, kw.cur) THEN Err("Esperado nombre del proceso", 0, 0, kw.cur)
           ELSE Bind(BloqueParametros(toks, avanzar(toks, kw.cur)),
                     LAMBDA parametros :
                       Bind(BloqueVariables(toks, parametros.cur),
                            LAMBDA variables :
                              Bind(BloqueInstrucciones(toks, variables.cur),
                                   LAMBDA instrucciones :
                                     Ok([nombre |-> toks[kw.cur].value,
                                         parametros |-> parametros.val,
                                         variables |-> variables.val,
                                         instrucciones |-> instrucciones.val],
                                        instrucciones.cur)))))

RECURSIVE parse_procesos(_, _, _)
\* procesos is the Vec built so far, << >> at the call
parse_procesos(toks, cur, procesos) ==
    IF ~HasCurrent(toks, cur) THEN Ok(procesos, cur)
    ELSE IF IsLayout(toks, cur) THEN parse_procesos(toks, avanzar(toks, cur), procesos)
    ELSE IF IsKeyword(toks, cur, Kw.proceso)
    THEN Bind(parse_proceso(toks, cur),
              LAMBDA p : parse_procesos(toks, p.cur, Append(procesos, p.val)))
    ELSE Ok(procesos, cur)

RECURSIVE NumsLoop(_, _, _, _)
\* `for _ in 0..4` of parse_areas: up to four Num tokens with optional commas
NumsLoop(toks, cur, nums, i) ==
    IF i = 4 THEN [nums |-> nums, cur |-> cur]
    ELSE IF ~HasCurrent(toks, cur) THEN NumsLoop(toks, cur, nums, i + 1)
    ELSE IF toks[cur].token_type = "Num"
    THEN LET nums1 == Append(nums, ParseI32(toks[cur].value))
             cur1 == avanzar(toks, cur)
         IN  NumsLoop(toks,
                      IF Len(nums1) < 4 /\ coincidir(toks, cur1, "Comma")
                      THEN avanzar(toks, cur1) ELSE cur1,
                      nums1, i + 1)
    ELSE [nums |-> nums, cur |-> cur]

RECURSIVE parse_areas(_, _, _)
\* areas is the Vec built so far, << >> at the call
parse_areas(toks, cur, areas) ==
    IF ~HasCurrent(toks, cur) THEN Ok(areas, cur)
    ELSE IF toks[cur].token_type = "Identifier"
    THEN Bind(consumir(toks, avanzar(toks, cur), "Declaration", "Esperado ':'"),
              LAMBDA colon :
                IF ~HasCurrent(toks, colon.cur)
                THEN Err("Esperado tipo de area", 0, 0, colon.cur)
                ELSE Bind(consumir(toks, avanzar(toks, colon.cur), "OpenedParenthesis",
                                   "Esperado '('"),
                          LAMBDA open :
                            LET n == NumsLoop(toks, open.cur, << >>, 0) IN
                            Bind(consumir(toks, n.cur, "ClosedParenthesis", "Esperado ')'"),
                                 LAMBDA close :
                                   parse_areas(toks, close.cur,
                                             IF Len(n.nums) = 4
                                             THEN Append(areas,
                                                         [nombre |-> toks[cur].value,
                                                          tipo |-> toks[colon.cur].value,
                                                          coordenadas |-> n.nums])
                                             ELSE areas))))
    ELSE IF IsLayout(toks, cur) THEN parse_areas(toks, avanzar(toks, cur), areas)
    ELSE Ok(areas, cur)

RECURSIVE parse_robots(_, _, _, _)
\* declarados and definidos are the Vecs built so far, << >> at the call
parse_robots(toks, cur, declarados, definidos) ==
    IF ~HasCurrent(toks, cur) THEN Ok(<< declarados, definidos >>, cur)
    ELSE IF IsKeyword(toks, cur, Kw.robot)
    THEN LET cur1 == avanzar(toks, cur)
         IN  IF ~HasCurrent(toks, cur1) THEN Err("Esperado nombre del robot", 0, 0, cur1)
             ELSE Bind(BloqueVariables(toks, avanzar(toks, cur1)),
                       LAMBDA variables :
                         Bind(BloqueInstrucciones(toks, variables.cur),
                              LAMBDA instrucciones :
                                parse_robots(toks, instrucciones.cur,
                                           Append(declarados, toks[cur1].value),
                                           Append(definidos,
                                                  [nombre |-> toks[cur1].value,
                                                   variables |-> variables.val,
                                                   instrucciones |-> instrucciones.val]))))
    ELSE IF IsLayout(toks, cur) THEN parse_robots(toks, avanzar(toks, cur), declarados, definidos)
    ELSE Ok(<< declarados, definidos >>, cur)

Contains(seq, x) == \E i \in 1..Len(seq) : seq[i] = x

RECURSIVE InstanciasLoop_NoCheck(_, _, _, _)
\* mutant of InstanciasLoop: the type of an instance is not looked up
InstanciasLoop_NoCheck(toks, cur, robots_declarados, robots_instanciados) ==
    IF ~HasCurrent(toks, cur) THEN Ok(robots_instanciados, cur)
    ELSE IF IsLayout(toks, cur)
    THEN InstanciasLoop_NoCheck(toks, avanzar(toks, cur), robots_declarados, robots_instanciados)
    ELSE IF IsKeyword(toks, cur, Kw.comenzar) THEN Ok(robots_instanciados, cur)
    ELSE IF toks[cur].token_type = "Identifier"
    THEN LET t == toks[cur]
             cur1 == avanzar(toks, cur)
             cur2 == avanzar(toks, cur1)
         IN  IF ~HasCurrent(toks, cur1)
             THEN Err("Declaracion de robot incompleta", t.line, t.column, cur1)
             ELSE IF toks[cur1].token_type # "Declaration"
             THEN Err("Esperado ':' en declaracion de robot",
                      toks[cur1].line, toks[cur1].column, cur1)
             ELSE IF ~HasCurrent(toks, cur2)
             THEN Err("Declaracion de robot incompleta", t.line, t.column, cur2)
             ELSE IF toks[cur2].token_type # "Identifier"
             THEN Err("Esperado tipo de robot despues de ':'",
                      toks[cur2].line, toks[cur2].column, cur2)
             ELSE InstanciasLoop_NoCheck(toks, avanzar(toks, cur2), robots_declarados,
                                 Append(robots_instanciados,
                                        [nombre |-> t.value, tipo |-> toks[cur2].value]))
    ELSE InstanciasLoop_NoCheck(toks, avanzar(toks, cur), robots_declarados, robots_instanciados)

RECURSIVE InstanciasLoop(_, _, _, _)
\* the "variables" arm of parse_programa: robot instantiations `name : type`
InstanciasLoop(toks, cur, robots_declarados, robots_instanciados) ==
    IF ~HasCurrent(toks, cur) THEN Ok(robots_instanciados, cur)
    ELSE IF IsLayout(toks, cur)
    THEN InstanciasLoop(toks, avanzar(toks, cur), robots_declarados, robots_instanciados)
    ELSE IF IsKeyword(toks, cur, Kw.comenzar) THEN Ok(robots_instanciados, cur)
    ELSE IF toks[cur].token_type = "Identifier"
    THEN LET t == toks[cur]
             cur1 == avanzar(toks, cur)
             cur2 == avanzar(toks, cur1)
         IN  IF ~HasCurrent(toks, cur1)
             THEN Err("Declaracion de robot incompleta", t.line, t.column, cur1)
             ELSE IF toks[cur1].token_type # "Declaration"
             THEN Err("Esperado ':' en declaracion de robot",
                      toks[cur1].line, toks[cur1].column, cur1)
             ELSE IF ~HasCurrent(toks, cur2)
             THEN Err("Declaracion de robot incompleta", t.line, t.column, cur2)
             ELSE IF toks[cur2].token_type # "Identifier"
             THEN Err("Esperado tipo de robot despues de ':'",
                      toks[cur2].line, toks[cur2].column, cur2)
             ELSE IF ~Contains(robots_declarados, toks[cur2].value)
             THEN Err(<< "Tipo de robot no definido: ", toks[cur2].value >>,
                      toks[cur2].line, toks[cur2].column, avanzar(toks, cur2))
             ELSE InstanciasLoop(toks, avanzar(toks, cur2), robots_declarados,
                                 Append(robots_instanciados,
                                        [nombre |-> t.value, tipo |-> toks[cur2].value]))
    ELSE InstanciasLoop(toks, avanzar(toks, cur), robots_declarados, robots_instanciados)

RECURSIVE SeccionesLoop(_, _, _)
\* the section loop of parse_programa; p holds the sections parsed so far
SeccionesLoop(toks, cur, p) ==
    IF ~HasCurrent(toks, cur) THEN Ok(p, cur)
    ELSE IF IsLayout(toks, cur) THEN SeccionesLoop(toks, avanzar(toks, cur), p)
    ELSE IF toks[cur].token_type # "Keyword" THEN Ok(p, cur)
    ELSE IF toks[cur].value = Kw.procesos
    THEN Bind(parse_procesos(toks, avanzar(toks, cur), << >>),
              LAMBDA r : SeccionesLoop(toks, r.cur, [p EXCEPT !.procesos = r.val]))
    ELSE IF toks[cur].value = Kw.areas
    THEN Bind(parse_areas(toks, avanzar(toks, cur), << >>),
              LAMBDA r : SeccionesLoop(toks, r.cur, [p EXCEPT !.areas = r.val]))
    ELSE IF toks[cur].value = Kw.robots
    THEN Bind(parse_robots(toks, avanzar(toks, cur), << >>, << >>),
              LAMBDA r : SeccionesLoop(toks, r.cur,
                                       [p EXCEPT !.robots_declarados = r.val[1],
                                                 !.robots_definidos = r.val[2]]))
    ELSE IF toks[cur].value = Kw.variables
    THEN Bind(InstanciasLoop(toks, avanzar(toks, cur), p.robots_declarados,
                             p.robots_instanciados),
              LAMBDA r : SeccionesLoop(toks, r.cur, [p EXCEPT !.robots_instanciados = r.val]))
    ELSE IF toks[cur].value = Kw.comenzar THEN Ok(p, cur)
    ELSE SeccionesLoop(toks, avanzar(toks, cur), p)

RECURSIVE SelectLlamadas(_, _, _)
\* the arguments of the main-block calls named `nombre` with `aridad` arguments
SelectLlamadas(instrucciones, nombre, aridad) ==
    IF instrucciones = << >> THEN << >>
    ELSE LET instr == Head(instrucciones)
         IN  IF instr.tipo = "LlamadaFuncion" /\ instr.nombre = nombre
                /\ Len(instr.argumentos) = aridad
             THEN << instr.argumentos >> \o SelectLlamadas(Tail(instrucciones), nombre, aridad)
             ELSE SelectLlamadas(Tail(instrucciones), nombre, aridad)

AsignacionesAreas(instrucciones) ==
    LET args == SelectLlamadas(instrucciones, <<"A","s","i","g","n","a","r","A","r","e","a">>, 2)
    IN  [i \in 1..Len(args) |-> [robot |-> args[i][1], area |-> args[i][2]]]

Inicializaciones(instrucciones) ==
    LET args == SelectLlamadas(instrucciones, <<"I","n","i","c","i","a","r">>, 3)
    IN  [i \in 1..Len(args) |-> [robot |-> args[i][1], pos_x |-> args[i][2],
                                 pos_y |-> args[i][3]]]

\* the Program built at the end of parse_programa
Programa(nombre, p, principal) ==
    [nombre |-> nombre,
     procesos |-> p.procesos,
     areas |-> p.areas,
     robots_declarados |-> p.robots_declarados,
     robots_definidos |->
         IF principal # << >>
         THEN Append(p.robots_definidos,
                     [nombre |-> Kw.main, variables |-> << >>,
                      instrucciones |-> principal])
         ELSE p.robots_definidos,
     robots_instanciados |-> p.robots_instanciados,
     asignaciones_areas |-> AsignacionesAreas(principal),
     inicializaciones |-> Inicializaciones(principal)]

parse_programa(toks) ==
    Bind(consumir(toks, 1, "Keyword", "Esperado 'programa'"),
         LAMBDA kw :
           IF ~HasCurrent(toks, kw.cur) THEN Err("Esperado nombre del programa", 0, 0, kw.cur)
           ELSE Bind(SeccionesLoop(toks, avanzar(toks, kw.cur),
                                   [procesos |-> << >>, areas |-> << >>,
                                    robots_declarados |-> << >>, robots_definidos |-> << >>,
                                    robots_instanciados |-> << >>]),
                     LAMBDA secciones :
                       Bind(BloqueInstrucciones(toks, secciones.cur),
                            LAMBDA principal :
                              Ok(Programa(toks[kw.cur].value, secciones.val, principal.val),
                                 principal.cur))))

----------------------------------------------------------------------------
(* SemanticAnalyzer (semanticizer/analizer.rs) over ASTNode values          *)
(* (parser/ast.rs).  A String is a sequence of characters as in the lexer, *)
(* an Option a sequence of length 0 or 1, a HashMap a function on its set  *)
(* of keys, a HashSet a set.  An ASTNode is a record whose field `node`    *)
(* names the variant.  The text of an error is the sequence of the pieces  *)
(* that format! joins.  A method whose outcome depends on the iteration    *)
(* order of a HashMap evaluates to the set of analyzers it can leave.      *)

None == << >>

Some(v) == << v >>

\* HashMap::insert
insert(map, key, value) ==
    [k \in DOMAIN map \cup { key } |-> IF k = key THEN value ELSE map[k]]

Then(S, F(_)) == UNION { F(A) : A \in S }

Continue(v, F(_)) == F(v)

starts_with(s, prefix) ==
    Len(s) >= Len(prefix) /\ SubSeq(s, 1, Len(prefix)) = prefix

\* str::replace(from, ""): every occurrence of `from` is removed
RECURSIVE replace(_, _)
replace(s, from) ==
    IF s = << >> THEN << >>
    ELSE IF starts_with(s, from) THEN replace(SubSeq(s, Len(from) + 1, Len(s)), from)
    ELSE << Head(s) >> \o replace(Tail(s), from)

\* str::split(sep), the parts with `part` the one being read
RECURSIVE split(_, _, _)
split(s, sep, part) ==
    IF s = << >> THEN << part >>
    ELSE IF starts_with(s, sep) THEN << part >> \o split(SubSeq(s, Len(sep) + 1, Len(s)), sep, << >>)
    ELSE split(Tail(s), sep, Append(part, Head(s)))

\* str::split_whitespace, with `word` the word being read
RECURSIVE split_whitespace(_, _)
split_whitespace(s, word) ==
    IF s = << >> THEN IF word = << >> THEN << >> ELSE << word >>
    ELSE IF is_whitespace(Head(s))
         THEN (IF word = << >> THEN << >> ELSE << word >>) \o split_whitespace(Tail(s), << >>)
    ELSE split_whitespace(Tail(s), Append(word, Head(s)))

\* the i32 that a run of digits makes, accumulated with checked arithmetic
\* on the side of the sign as i32::from_str does
RECURSIVE ParseDigits(_, _, _)
ParseDigits(digits, acc, negative) ==
    IF digits = << >> THEN [ok |-> TRUE, val |-> acc]
    ELSE IF negative /\ acc < 0 - I32Max THEN [ok |-> FALSE, val |-> 0]
    ELSE LET d == CHOOSE n \in 0..9 :
                      Head(digits) = <<"0","1","2","3","4","5","6","7","8","9">>[n + 1]
             magnitude == IF negative THEN 0 - acc ELSE acc
         IN IF \/ magnitude < I32Max \div 10
               \/ /\ magnitude = I32Max \div 10
                  /\ d <= (I32Max % 10) + (IF negative THEN 1 ELSE 0)
            THEN ParseDigits(Tail(digits),
                             10 * acc + (IF negative THEN 0 - d ELSE d), negative)
            ELSE [ok |-> FALSE, val |-> 0]

\* str::parse::<i32>(): an optional sign, then digits, within the i32 range
parse_i32(word) ==
    LET signed == word # << >> /\ Head(word) \in { "+", "-" }
        digits == IF signed THEN Tail(word) ELSE word
    IN IF digits = << >> \/ \E i \in 1..Len(digits) : ~is_ascii_digit(digits[i])
       THEN [ok |-> FALSE, val |-> 0]
       ELSE ParseDigits(digits, 0, signed /\ Head(word) = "-")

sem_is_operator(word) ==
    word \in { <<"+">>, <<"-">>, <<"*">>, <<"/">>, <<"=">>, <<"<">>, <<">">>, <<"!">>, <<"&">>, <<"|">>, <<",">>, <<":">>,
               <<"~">>, <<"<","=">>, <<">","=">>, <<"=","=">>, <<"!","=">> }

is_keyword(word) ==
    word \in { <<"s","i">>, <<"s","i","n","o">>, <<"m","i","e","n","t","r","a","s">>, <<"r","e","p","e","t","i","r">>, <<"p","r","o","c","e","s","o">>, <<"r","o","b","o","t">>,
               <<"v","a","r","i","a","b","l","e","s">>, <<"n","u","m","e","r","o">>, <<"b","o","o","l","e","a","n","o">>, <<"c","o","m","e","n","z","a","r">>, <<"f","i","n">>,
               <<"p","r","o","g","r","a","m","a">>, <<"p","r","o","c","e","s","o","s">>, <<"a","r","e","a","s">>, <<"r","o","b","o","t","s">>, <<"V">>, <<"F">>,
               <<"H","a","y","F","l","o","r","E","n","L","a","E","s","q","u","i","n","a">> }

is_number(word) == parse_i32(word).ok

is_boolean_WordsOnly(word) ==
    to_lowercase(word) \in { <<"t","r","u","e">>, <<"f","a","l","s","e">>, <<"v","e","r","d","a","d","e","r","o">>, <<"f","a","l","s","o">> }

is_boolean(word) ==
    to_lowercase(word) \in { <<"t","r","u","e">>, <<"f","a","l","s","e">>, <<"v","e","r","d","a","d","e","r","o">>, <<"f","a","l","s","o">>, <<"v">>, <<"f">> }

SymbolInfo(name, var_type, scope, initialized, is_constant) ==
    [name |-> name, var_type |-> var_type, scope |-> scope,
     initialized |-> initialized, is_constant |-> is_constant]

SemanticAnalyzer_new ==
    [symbol_table |-> << >>,
     scope_stack |-> << << >> >>,
     errors |-> << >>,
     current_scope |-> <<"g","l","o","b","a","l">>,
     processes_info |-> << >>,
     process_calls |-> << >>,
     executable_code |-> [programa |-> << >>, areas |-> << >>, robots |-> << >>,
                          procesos |-> << >>, main |-> << >>, variables |-> << >>],
     message_communications |-> [sends |-> << >>, receives |-> << >>, connections |-> {},
                                 robot_communications |-> << >>],
     expression_context |-> None,
     process_calls_in_expressions |-> << >>]

\* self.errors.push(CompilerError::new(message, 0, 0))
PushError(A, message) == [A EXCEPT !.errors = Append(@, CompilerError(message, 0, 0))]

start_expression_context(A, in_assignment, target) ==
    [A EXCEPT !.expression_context =
        Some([current_expression |-> << >>, in_assignment |-> in_assignment,
              assignment_target |-> target, current_operator |-> None])]

\* the while loop of build_expression_from_context on a stack of odd length
RECURSIVE FoldExpression(_, _)
FoldExpression(expression_stack, operator) ==
    IF Len(expression_stack) <= 1 THEN expression_stack
    ELSE FoldExpression(
             Append(SubSeq(expression_stack, 1, Len(expression_stack) - 2),
                    [expr |-> "BinaryOperation",
                     left |-> expression_stack[Len(expression_stack) - 1],
                     operator |-> operator,
                     right |-> expression_stack[Len(expression_stack)]]),
             operator)

\* the analyzer it leaves and the Option it returns
build_expression_from_context(A, context) ==
    IF Len(context.current_expression) % 2 = 1
    THEN [analyzer |-> A,
          value |-> Some(FoldExpression(context.current_expression,
                                        IF context.current_operator # None
                                        THEN context.current_operator[1] ELSE <<"+">>)[1])]
    ELSE [analyzer |-> PushError(A, << "Expresion mal formada" >>), value |-> None]

end_expression_context(A) ==
    IF A.expression_context = None THEN [analyzer |-> A, value |-> None]
    ELSE IF Len(A.expression_context[1].current_expression) = 1
    THEN [analyzer |-> [A EXCEPT !.expression_context = None],
          value |-> Some(A.expression_context[1].current_expression[1])]
    ELSE IF A.expression_context[1].current_expression # << >>
    THEN build_expression_from_context([A EXCEPT !.expression_context = None],
                                       A.expression_context[1])
    ELSE [analyzer |-> [A EXCEPT !.expression_context = None], value |-> None]

add_to_expression(A, value) ==
    IF A.expression_context = None THEN A
    ELSE [A EXCEPT !.expression_context[1].current_expression = Append(@, value)]

add_operator_to_expression(A, operator) ==
    IF A.expression_context = None THEN A
    ELSE [A EXCEPT !.expression_context[1].current_operator = Some(operator)]

get_current_entity_name(A) ==
    IF starts_with(A.current_scope, <<"r","o","b","o","t",":">>) THEN replace(A.current_scope, <<"r","o","b","o","t",":">>)
    ELSE IF starts_with(A.current_scope, <<"p","r","o","c","e","s","o",":">>) THEN replace(A.current_scope, <<"p","r","o","c","e","s","o",":">>)
    ELSE IF A.current_scope = <<"m","a","i","n">> THEN <<"m","a","i","n">>
    ELSE <<"g","l","o","b","a","l">>

\* *map.entry(key).or_insert(0) += 1
Increment(map, key) == insert(map, key, (IF key \in DOMAIN map THEN map[key] ELSE 0) + 1)

update_robot_communication_stats(A, entity_name, comm_type) ==
    LET old == IF entity_name \in DOMAIN A.message_communications.robot_communications
               THEN A.message_communications.robot_communications[entity_name]
               ELSE [sends |-> 0, receives |-> 0, total |-> 0]
        sends == old.sends + (IF comm_type = "send" THEN 1 ELSE 0)
        receives == old.receives + (IF comm_type = "receive" THEN 1 ELSE 0)
    IN [A EXCEPT !.message_communications.robot_communications =
           insert(@, entity_name,
                  [sends |-> sends, receives |-> receives, total |-> sends + receives])]

register_message_send(A, sender, target) ==
    LET sender_name == get_current_entity_name(A)
    IN update_robot_communication_stats(
           [A EXCEPT !.message_communications.sends = Increment(@, sender_name),
                     !.message_communications.connections =
                         IF target = None THEN @
                         ELSE @ \cup { sender_name \o <<"-",">">> \o target[1] }],
           sender_name, "send")

register_message_receive(A, receiver, source) ==
    LET receiver_name == get_current_entity_name(A)
    IN update_robot_communication_stats(
           [A EXCEPT !.message_communications.receives = Increment(@, receiver_name),
                     !.message_communications.connections =
                         IF source = None THEN @
                         ELSE @ \cup { source[1] \o <<"-",">">> \o receiver_name }],
           receiver_name, "receive")

analyze_message_communication(A, instruction, parameters) ==
    IF instruction = <<"E","n","v","i","a","r","M","e","n","s","a","j","e">>
    THEN register_message_send(A, get_current_entity_name(A),
             IF parameters # << >> THEN Some(parameters[1]) ELSE None)
    ELSE IF instruction = <<"R","e","c","i","b","i","r","M","e","n","s","a","j","e">>
    THEN register_message_receive(A, get_current_entity_name(A),
             IF parameters # << >> THEN Some(parameters[1]) ELSE None)
    ELSE A

\* the sum of the values of a HashMap<String, usize>
RECURSIVE SumValues(_)
SumValues(map) ==
    IF DOMAIN map = {} THEN 0
    ELSE LET key == CHOOSE k \in DOMAIN map : TRUE
         IN map[key] + SumValues([k \in DOMAIN map \ { key } |-> map[k]])

\* self.message_communications.receives.get(receiver).map_or(false, |&count| count > 0)
HasReceived(A, receiver) ==
    /\ receiver \in DOMAIN A.message_communications.receives
    /\ A.message_communications.receives[receiver] > 0

calculate_total_conexiones(A) ==
    Cardinality({ entity \in DOMAIN A.message_communications.robot_communications :
        /\ A.message_communications.robot_communications[entity].sends > 0
        /\ \E conn \in A.message_communications.connections :
              /\ starts_with(conn, entity \o <<"-",">">>)
              /\ Len(split(conn, <<"-",">">>, << >>)) = 2
              /\ HasReceived(A, split(conn, <<"-",">">>, << >>)[2]) })

\* get_communication_stats with every connection counted as effective
get_communication_stats_AllEffective(A) ==
    LET comm == A.message_communications
        communicating_entities ==
            { entity \in DOMAIN comm.sends : comm.sends[entity] > 0 }
                \cup { entity \in DOMAIN comm.receives : comm.receives[entity] > 0 }
    IN [total_sends |-> SumValues(comm.sends),
        total_receives |-> SumValues(comm.receives),
        total_connections |-> Cardinality(comm.connections),
        effective_connections |-> Cardinality(comm.connections),
        communicating_entities |-> communicating_entities,
        total_communicating_robots |-> Cardinality(communicating_entities),
        by_robot |-> { [name |-> name,
                        sends |-> comm.robot_communications[name].sends,
                        receives |-> comm.robot_communications[name].receives,
                        total |-> comm.robot_communications[name].total,
                        is_communicating |-> comm.robot_communications[name].total > 0] :
                       name \in DOMAIN comm.robot_communications },
        total_conexiones |-> calculate_total_conexiones(A)]

\* the Vecs collected from a HashSet or a HashMap are given as sets: their
\* order is the iteration order of the collection
get_communication_stats(A) ==
    LET comm == A.message_communications
        communicating_entities ==
            { entity \in DOMAIN comm.sends : comm.sends[entity] > 0 }
                \cup { entity \in DOMAIN comm.receives : comm.receives[entity] > 0 }
    IN [total_sends |-> SumValues(comm.sends),
        total_receives |-> SumValues(comm.receives),
        total_connections |-> Cardinality(comm.connections),
        effective_connections |->
            Cardinality({ conn \in comm.connections :
                /\ Len(split(conn, <<"-",">">>, << >>)) = 2
                /\ HasReceived(A, split(conn, <<"-",">">>, << >>)[2]) }),
        communicating_entities |-> communicating_entities,
        total_communicating_robots |-> Cardinality(communicating_entities),
        by_robot |-> { [name |-> name,
                        sends |-> comm.robot_communications[name].sends,
                        receives |-> comm.robot_communications[name].receives,
                        total |-> comm.robot_communications[name].total,
                        is_communicating |-> comm.robot_communications[name].total > 0] :
                       name \in DOMAIN comm.robot_communications },
        total_conexiones |-> calculate_total_conexiones(A)]

enter_scope(A, scope_name) ==
    [A EXCEPT !.scope_stack = Append(@, << >>), !.current_scope = scope_name]

\* the for loop over the new top map takes the scope of the symbol that the
\* map iterates first, which can be any of its symbols
exit_scope(A) ==
    IF Len(A.scope_stack) > 1
    THEN IF DOMAIN A.scope_stack[Len(A.scope_stack) - 1] = {}
         THEN { [A EXCEPT !.scope_stack = Pop(@)] }
         ELSE { [A EXCEPT !.scope_stack = Pop(@),
                          !.current_scope = A.scope_stack[Len(A.scope_stack) - 1][key].scope] :
                key \in DOMAIN A.scope_stack[Len(A.scope_stack) - 1] }
    ELSE { A }

declare_variable(A, name, var_type, scope) ==
    IF name \in DOMAIN Last(A.scope_stack)
    THEN PushError(A, << "Variable '", name, "' ya declarada en este ambito" >>)
    ELSE LET symbol == SymbolInfo(name, var_type, scope,
                                  var_type = <<"r","o","b","o","t">> \/ var_type = <<"a","r","e","a">>, FALSE)
         IN [A EXCEPT !.scope_stack[Len(A.scope_stack)] = insert(@, name, symbol),
                      !.symbol_table = Append(@, symbol)]

\* the position in scope_stack of the innermost map that holds name, else 0
ScopeHolding(A, name) ==
    LET holders == { k \in 1..Len(A.scope_stack) : name \in DOMAIN A.scope_stack[k] }
    IN IF holders = {} THEN 0 ELSE CHOOSE k \in holders : \A j \in holders : j <= k

lookup_variable(A, name) ==
    IF ScopeHolding(A, name) = 0 THEN None
    ELSE Some(A.scope_stack[ScopeHolding(A, name)][name])

declare_process(A, name, parameters) ==
    [A EXCEPT !.scope_stack[1] =
        insert(@, <<"p","r","o","c","e","s","s",":">> \o name, SymbolInfo(name, <<"p","r","o","c","e","s","s">>, <<"g","l","o","b","a","l">>, TRUE, TRUE))]

lookup_process(A, name) ==
    IF (<<"p","r","o","c","e","s","s",":">> \o name) \in DOMAIN A.scope_stack[1]
    THEN Some(A.scope_stack[1][<<"p","r","o","c","e","s","s",":">> \o name])
    ELSE None

compile_expression_value(value) ==
    IF parse_i32(value).ok THEN [expr |-> "Number", value |-> parse_i32(value).val]
    ELSE IF is_boolean(value)
    THEN [expr |-> "Boolean",
          value |-> to_lowercase(value) \in { <<"t","r","u","e">>, <<"v","e","r","d","a","d","e","r","o">>, <<"v">> }]
    ELSE [expr |-> "Variable", name |-> value]

RECURSIVE compile_instructions(_, _)

compile_instruction(statement) ==
    CASE statement.node = "ElementalInstruction" ->
             [kind |-> "Elemental", instruction |-> statement.instruction,
              parameters |-> statement.parameters, line |-> 0]
      [] statement.node = "ProcessCall" ->
             [kind |-> "ProcessCall", process_name |-> statement.name,
              parameters |-> statement.parameters, line |-> 0]
      [] statement.node = "IfStatement" ->
             [kind |-> "If", condition |-> statement.condition,
              consequent |-> compile_instructions(statement.consequent, 1),
              alternate |-> IF statement.alternate = None THEN << >>
                            ELSE compile_instructions(statement.alternate[1], 1),
              line |-> 0]
      [] statement.node = "WhileStatement" ->
             [kind |-> "While", condition |-> statement.condition,
              body |-> compile_instructions(statement.body, 1), line |-> 0]
      [] statement.node = "RepeatStatement" ->
             [kind |-> "Repeat", count |-> statement.count,
              body |-> compile_instructions(statement.body, 1), line |-> 0]
      [] statement.node = "Assignment" ->
             [kind |-> "Assignment", target |-> statement.target,
              operator |-> statement.operator,
              value |-> compile_expression_value(statement.value), line |-> 0]
      [] statement.node = "Value" ->
             [kind |-> "Expression",
              expression |-> compile_expression_value(statement.value), line |-> 0]
      [] OTHER -> [kind |-> "Unknown", original |-> statement]

\* the instructions compiled from statements[i] on
compile_instructions(statements, i) ==
    IF i > Len(statements) THEN << >>
    ELSE IF /\ statements[i].node = "Value"
            /\ i + 1 <= Len(statements)
            /\ statements[i + 1].node = "Assignment"
    THEN << [kind |-> "Assignment", target |-> Some(statements[i].value),
             operator |-> statements[i + 1].operator,
             value |-> compile_expression_value(statements[i + 1].value),
             line |-> 0] >> \o compile_instructions(statements, i + 2)
    ELSE IF /\ statements[i].node = "Value"
            /\ i + 1 <= Len(statements)
            /\ statements[i + 1].node = "ProcessCall"
    THEN << [kind |-> "ProcessCall", process_name |-> statements[i].value,
             parameters |-> statements[i + 1].parameters, line |-> 0] >>
             \o compile_instructions(statements, i + 2)
    ELSE << compile_instruction(statements[i]) >> \o compile_instructions(statements, i + 1)

calculate_area_bounds(dimensions) ==
    IF Len(dimensions) # 4 THEN [x1 |-> 0, y1 |-> 0, x2 |-> 99, y2 |-> 99]
    ELSE [x1 |-> IF parse_i32(dimensions[1]).ok THEN parse_i32(dimensions[1]).val ELSE 0,
          y1 |-> IF parse_i32(dimensions[2]).ok THEN parse_i32(dimensions[2]).val ELSE 0,
          x2 |-> IF parse_i32(dimensions[3]).ok THEN parse_i32(dimensions[3]).val ELSE 99,
          y2 |-> IF parse_i32(dimensions[4]).ok THEN parse_i32(dimensions[4]).val ELSE 99]

visit_value_statement(A, value) ==
    IF lookup_variable(A, value) # None
    THEN add_to_expression(
             IF /\ ~lookup_variable(A, value)[1].initialized
                /\ ~lookup_variable(A, value)[1].is_constant
             THEN PushError(A, << "Variable '", value, "' no inicializada" >>)
             ELSE A,
             [expr |-> "Variable", name |-> value])
    ELSE IF lookup_process(A, value) # None
    THEN PushError(A, << "Llamada a proceso '", value, "' sin parametros" >>)
    ELSE IF is_number(value)
    THEN add_to_expression(A, [expr |-> "Number", value |-> parse_i32(value).val])
    ELSE IF is_boolean(value)
    THEN add_to_expression(A, [expr |-> "Boolean",
             value |-> to_lowercase(value) \in { <<"t","r","u","e">>, <<"v","e","r","d","a","d","e","r","o">>, <<"v">> }])
    ELSE PushError(A, << "Identificador '", value, "' no declarado" >>)

visit_assignment_with_target(A, target, operator, value) ==
    LET target_symbol == lookup_variable(A, target)
        value_symbol == lookup_variable(A, value)
        undeclared == IF target_symbol = None
                      THEN PushError(A, << "Variable '", target, "' no declarada" >>)
                      ELSE A
        mismatched == IF /\ target_symbol # None
                         /\ target_symbol[1].var_type # value_symbol[1].var_type
                      THEN PushError(undeclared,
                               << "Tipo incompatible: no se puede asignar ", value, " (tipo: ",
                                  value_symbol[1].var_type, ") a ", target, " (tipo: ",
                                  target_symbol[1].var_type, ")" >>)
                      ELSE undeclared
        checked ==
            IF is_number(value)
            THEN IF target_symbol # None /\ target_symbol[1].var_type # <<"n","u","m","e","r","o">>
                 THEN PushError(undeclared,
                          << "Tipo incompatible: no se puede asignar numero a variable de tipo '",
                             target_symbol[1].var_type, "'" >>)
                 ELSE undeclared
            ELSE IF is_boolean(value)
            THEN IF /\ target_symbol # None
                    /\ target_symbol[1].var_type # <<"b","o","o","l","e","a","n","o">>
                    /\ target_symbol[1].var_type # <<"b","o","o","l">>
                 THEN PushError(undeclared,
                          << "Tipo incompatible: no se puede asignar booleano a variable de tipo '",
                             target_symbol[1].var_type, "'" >>)
                 ELSE undeclared
            ELSE IF value_symbol # None
            THEN IF target_symbol # None
                 THEN IF ~value_symbol[1].initialized /\ ~value_symbol[1].is_constant
                      THEN PushError(mismatched, << "Variable '", value, "' no inicializada" >>)
                      ELSE mismatched
                 ELSE undeclared
            ELSE PushError(undeclared, << "Variable '", value, "' no declarada" >>)
    IN IF target_symbol = None THEN checked
       ELSE [checked EXCEPT !.scope_stack[ScopeHolding(A, target)][target].initialized = TRUE]

visit_assignment(A, target, operator, value) ==
    LET checked == IF operator # <<":","=">>
                   THEN PushError(A, << "Operador de asignacion no valido: '", operator, "'" >>)
                   ELSE A
    IN IF is_number(value) \/ is_boolean(value) THEN checked
       ELSE IF lookup_variable(A, value) # None
       THEN IF /\ ~lookup_variable(A, value)[1].initialized
               /\ ~lookup_variable(A, value)[1].is_constant
            THEN PushError(checked, << "Variable '", value, "' no inicializada" >>)
            ELSE checked
       ELSE PushError(checked, << "Identificador '", value, "' no declarado" >>)

visit_process_call(A, name, parameters) ==
    IF lookup_process(A, name) = None
    THEN PushError(
             [A EXCEPT !.process_calls =
                 Append(@, [name |-> name, parameters |-> parameters, line |-> 0,
                            is_valid |-> FALSE])],
             << "Proceso '", name, "' no declarado" >>)
    ELSE [A EXCEPT !.process_calls =
             Append(@, [name |-> name, parameters |-> parameters, line |-> 0,
                        is_valid |-> TRUE])]

\* the loop over the parameters of an elemental instruction, from the i-th on
RECURSIVE CheckParameters(_, _, _)
CheckParameters(A, parameters, i) ==
    IF i > Len(parameters) THEN A
    ELSE IF is_number(parameters[i]) \/ is_boolean(parameters[i])
    THEN CheckParameters(A, parameters, i + 1)
    ELSE IF lookup_variable(A, parameters[i]) = None
    THEN CheckParameters(PushError(A, << "Parametro no valido: '", parameters[i], "'" >>),
                         parameters, i + 1)
    ELSE IF /\ ~lookup_variable(A, parameters[i])[1].initialized
            /\ ~lookup_variable(A, parameters[i])[1].is_constant
    THEN CheckParameters(
             PushError(A, << "Variable '", parameters[i],
                             "' no inicializada en parametro de instruccion" >>),
             parameters, i + 1)
    ELSE CheckParameters(A, parameters, i + 1)

visit_elemental_instruction(A, instruction, parameters) ==
    CheckParameters(
        analyze_message_communication(
            IF instruction \notin
               { <<"I","n","i","c","i","a","r">>, <<"d","e","r","e","c","h","a">>, <<"m","o","v","e","r">>, <<"t","o","m","a","r","F","l","o","r">>, <<"t","o","m","a","r","P","a","p","e","l">>,
                 <<"d","e","p","o","s","i","t","a","r","F","l","o","r">>, <<"d","e","p","o","s","i","t","a","r","P","a","p","e","l">>, <<"P","o","s","A","v">>, <<"P","o","s","C","a">>,
                 <<"H","a","y","F","l","o","r","E","n","L","a","B","o","l","s","a">>, <<"H","a","y","P","a","p","e","l","E","n","L","a","B","o","l","s","a">>, <<"H","a","y","F","l","o","r","E","n","L","a","E","s","q","u","i","n","a">>,
                 <<"H","a","y","P","a","p","e","l","E","n","L","a","E","s","q","u","i","n","a">>, <<"P","o","s">>, <<"I","n","f","o","r","m","a","r">>, <<"A","s","i","g","n","a","r","A","r","e","a">>,
                 <<"R","a","n","d","o","m">>, <<"B","l","o","q","u","e","a","r","E","s","q","u","i","n","a">>, <<"L","i","b","e","r","a","r","E","s","q","u","i","n","a">>,
                 <<"E","n","v","i","a","r","M","e","n","s","a","j","e">>, <<"R","e","c","i","b","i","r","M","e","n","s","a","j","e">> }
            THEN PushError(A, << "Instruccion elemental no reconocida: '", instruction, "'" >>)
            ELSE A,
            instruction, parameters),
        parameters, 1)

\* the loop over the dimensions of an area, from the i-th on
RECURSIVE CheckDimensions(_, _, _, _)
CheckDimensions(A, name, dimensions, i) ==
    IF i > Len(dimensions) THEN A
    ELSE IF ~is_number(dimensions[i]) /\ lookup_variable(A, dimensions[i]) = None
    THEN CheckDimensions(
             PushError(A, << "Dimension invalida en area '", name, "': ", dimensions[i] >>),
             name, dimensions, i + 1)
    ELSE CheckDimensions(A, name, dimensions, i + 1)

visit_area_definition(A, name, area_type, dimensions) ==
    LET typed == IF area_type \notin { <<"A","r","e","a","C">>, <<"A","r","e","a","P","C">>, <<"A","r","e","a","P">> }
                 THEN PushError(A, << "Tipo de area no reconocido: '", area_type, "'" >>)
                 ELSE A
        sized == IF Len(dimensions) # 4
                 THEN PushError(typed, << "El area '", name,
                                          "' debe tener exactamente 4 dimensiones" >>)
                 ELSE typed
    IN CheckDimensions(sized, name, dimensions, 1)

verify_operand_in_condition(A, operand, operator) ==
    IF is_number(operand) \/ is_boolean(operand) THEN A
    ELSE IF lookup_variable(A, operand) = None
    THEN PushError(A, << "Identificador '", operand, "' no declarado en condicion" >>)
    ELSE LET symbol == lookup_variable(A, operand)[1]
             read == IF ~symbol.initialized /\ ~symbol.is_constant
                     THEN PushError(A, << "Variable '", operand,
                                          "' no inicializada en condicion" >>)
                     ELSE A
         IN IF operator \in { <<"<">>, <<">">>, <<"<","=">>, <<">","=">> } /\ symbol.var_type # <<"n","u","m","e","r","o">>
            THEN PushError(read, << "Operador '", operator,
                                    "' requiere operandos numericos, se obtuvo: ",
                                    symbol.var_type >>)
            ELSE IF /\ operator \in { <<"&">>, <<"|">> }
                    /\ symbol.var_type # <<"b","o","o","l","e","a","n","o">>
                    /\ symbol.var_type # <<"b","o","o","l">>
            THEN PushError(read, << "Operador '", operator,
                                    "' requiere operandos booleanos, se obtuvo: ",
                                    symbol.var_type >>)
            ELSE read

\* the while loop of visit_condition, from the i-th token on
RECURSIVE CheckTokens(_, _, _)
CheckTokens(A, tokens, i) ==
    IF i > Len(tokens) THEN A
    ELSE IF sem_is_operator(tokens[i])
    THEN IF i = 1 \/ i = Len(tokens)
         THEN CheckTokens(
                  PushError(A, << "Operador '", tokens[i],
                                  "' en posicion invalida en condicion" >>),
                  tokens, i + 1)
         ELSE CheckTokens(
                  verify_operand_in_condition(
                      verify_operand_in_condition(A, tokens[i - 1], tokens[i]),
                      tokens[i + 1], tokens[i]),
                  tokens, i + 3)
    ELSE IF ~is_keyword(tokens[i])
    THEN CheckTokens(verify_operand_in_condition(A, tokens[i], << >>), tokens, i + 1)
    ELSE CheckTokens(A, tokens, i + 1)

visit_condition(A, condition) ==
    CheckTokens(A, split_whitespace(condition.expression, << >>), 1)

\* the inner loop of visit_block over the Values and Operators of an expression
RECURSIVE ScanExpression(_, _, _)
ScanExpression(A, statements, j) ==
    IF j > Len(statements) THEN [analyzer |-> A, j |-> j]
    ELSE IF statements[j].node = "Value"
    THEN ScanExpression(visit_value_statement(A, statements[j].value), statements, j + 1)
    ELSE IF statements[j].node = "Operator"
    THEN ScanExpression(add_operator_to_expression(A, statements[j].operator),
                        statements, j + 1)
    ELSE [analyzer |-> A, j |-> j]

\* visit_block on a Value followed by an Operator: the analyzer it leaves and
\* the statement it goes on with
visit_expression(A, statements, i) ==
    Continue(
        ScanExpression(
            add_operator_to_expression(
                visit_value_statement(start_expression_context(A, FALSE, None),
                                      statements[i].value),
                statements[i + 1].operator),
            statements, i + 2),
        LAMBDA scanned :
            Continue(
                end_expression_context(scanned.analyzer),
                LAMBDA ended :
                    [analyzer |-> ended.analyzer,
                     i |-> IF /\ ended.value # None
                              /\ scanned.j <= Len(statements)
                              /\ statements[scanned.j].node = "Assignment"
                           THEN scanned.j + 1
                           ELSE scanned.j]))

RECURSIVE visit_block(_, _, _)

RECURSIVE visit_statement(_, _)

visit_if_statement(A, condition, consequent, alternate) ==
    Then(Then(visit_block(enter_scope(visit_condition(A, condition), <<"i","f">>), consequent, 1),
              exit_scope),
         LAMBDA B :
             IF alternate = None THEN { B }
             ELSE Then(visit_block(enter_scope(B, <<"e","l","s","e">>), alternate[1], 1), exit_scope))

visit_while_statement(A, condition, body) ==
    Then(visit_block(enter_scope(visit_condition(A, condition), <<"w","h","i","l","e">>), body, 1),
         exit_scope)

visit_repeat_statement(A, count, body) ==
    LET counted ==
            IF is_number(count)
            THEN IF parse_i32(count).val <= 0
                 THEN PushError(A, << "El contador de repeticion debe ser mayor a 0" >>)
                 ELSE A
            ELSE IF lookup_variable(A, count) = None
            THEN PushError(A, << "Contador de repeticion no valido: '", count, "'" >>)
            ELSE LET symbol == lookup_variable(A, count)[1]
                     typed == IF symbol.var_type # <<"n","u","m","e","r","o">>
                              THEN PushError(A,
                                       << "El contador de repeticion debe ser numerico, se obtuvo: ",
                                          symbol.var_type >>)
                              ELSE A
                 IN IF ~symbol.initialized
                    THEN PushError(typed, << "Variable '", count,
                                             "' no inicializada en contador de repeticion" >>)
                    ELSE typed
    IN Then(visit_block(enter_scope(counted, <<"r","e","p","e","a","t">>), body, 1), exit_scope)

visit_statement(A, node) ==
    CASE node.node = "VariableDeclaration" ->
             { declare_variable(A, node.name, node.variable_type, A.current_scope) }
      [] node.node = "IfStatement" ->
             visit_if_statement(A, node.condition, node.consequent, node.alternate)
      [] node.node = "WhileStatement" -> visit_while_statement(A, node.condition, node.body)
      [] node.node = "RepeatStatement" -> visit_repeat_statement(A, node.count, node.body)
      [] node.node = "Assignment" ->
             { visit_assignment(A, node.target, node.operator, node.value) }
      [] node.node = "ProcessCall" -> { visit_process_call(A, node.name, node.parameters) }
      [] node.node = "ElementalInstruction" ->
             { visit_elemental_instruction(A, node.instruction, node.parameters) }
      [] node.node = "AreaDefinition" ->
             { visit_area_definition(A, node.name, node.area_type, node.dimensions) }
      [] node.node = "Value" -> { visit_value_statement(A, node.value) }
      [] node.node = "Operator" ->
             { PushError(A, << "Operador fuera de contexto de expresion" >>) }
      [] OTHER -> { PushError(A, << "Tipo de statement no reconocido: ", node >>) }

\* the statements from the i-th on
visit_block(A, statements, i) ==
    IF i > Len(statements) THEN { A }
    ELSE IF statements[i].node # "Value"
    THEN Then(visit_statement(A, statements[i]), LAMBDA B : visit_block(B, statements, i + 1))
    ELSE IF i + 1 <= Len(statements) /\ statements[i + 1].node = "Assignment"
    THEN visit_block(
             visit_assignment_with_target(A, statements[i].value,
                 statements[i + 1].operator, statements[i + 1].value),
             statements, i + 2)
    ELSE IF i + 1 <= Len(statements) /\ statements[i + 1].node = "Operator"
    THEN Continue(visit_expression(A, statements, i),
                  LAMBDA visited : visit_block(visited.analyzer, statements, visited.i))
    ELSE IF /\ i + 1 <= Len(statements)
            /\ statements[i + 1].node = "ProcessCall"
            /\ lookup_process(A, statements[i].value) # None
    THEN visit_block(
             visit_process_call(A, statements[i].value, statements[i + 1].parameters),
             statements, i + 2)
    ELSE visit_block(visit_value_statement(A, statements[i].value), statements, i + 1)

\* the loop of visit_variables_section, from the i-th declaration on
RECURSIVE visit_variables_section(_, _, _)
visit_variables_section(A, declarations, i) ==
    IF i > Len(declarations) THEN A
    ELSE IF declarations[i].node # "VariableDeclaration"
    THEN visit_variables_section(A, declarations, i + 1)
    ELSE visit_variables_section(
             [declare_variable(A, declarations[i].name, declarations[i].variable_type,
                               <<"g","l","o","b","a","l">>)
                 EXCEPT !.executable_code.variables =
                     insert(@, declarations[i].name,
                            [name |-> declarations[i].name,
                             var_type |-> declarations[i].variable_type,
                             value |-> None])],
             declarations, i + 1)

\* the loop of visit_areas_section, from the i-th area on
RECURSIVE visit_areas_section(_, _, _)
visit_areas_section(A, areas, i) ==
    IF i > Len(areas) THEN A
    ELSE IF areas[i].node # "AreaDefinition" THEN visit_areas_section(A, areas, i + 1)
    ELSE visit_areas_section(
             [declare_variable(A, areas[i].name, <<"a","r","e","a">>, <<"g","l","o","b","a","l">>)
                 EXCEPT !.executable_code.areas =
                     Append(@, [name |-> areas[i].name,
                                area_type |-> areas[i].area_type,
                                dimensions |-> areas[i].dimensions,
                                bounds |-> calculate_area_bounds(areas[i].dimensions)])],
             areas, i + 1)

\* the loop over the parameters of a proceso, from the i-th on
RECURSIVE DeclareParameters(_, _, _, _)
DeclareParameters(A, name, parameters, i) ==
    IF i > Len(parameters) THEN A
    ELSE DeclareParameters(
             declare_variable(A, parameters[i].name, parameters[i].param_type,
                              <<"p","r","o","c","e","s","o",":">> \o name),
             name, parameters, i + 1)

visit_proceso(A, node) ==
    IF node.node # "Proceso" THEN { A }
    ELSE Then(visit_block(
                  DeclareParameters(enter_scope(A, <<"p","r","o","c","e","s","o",":">> \o node.name),
                                    node.name, node.parameters, 1),
                  node.body, 1),
              exit_scope)

\* the loop of visit_procesos_section, from the i-th proceso on
RECURSIVE visit_procesos_section(_, _, _)
visit_procesos_section(A, procesos, i) ==
    IF i > Len(procesos) THEN { A }
    ELSE IF procesos[i].node # "Proceso" THEN visit_procesos_section(A, procesos, i + 1)
    ELSE Then(visit_proceso(
                  [declare_process(A, procesos[i].name, procesos[i].parameters)
                      EXCEPT !.processes_info =
                                 Append(@, [name |-> procesos[i].name,
                                            parameters |-> procesos[i].parameters,
                                            variables |->
                                                IF /\ procesos[i].variables # None
                                                   /\ procesos[i].variables[1].node
                                                          = "VariablesSection"
                                                THEN procesos[i].variables[1].declarations
                                                ELSE << >>,
                                            body_statements |-> Len(procesos[i].body),
                                            scope |-> <<"p","r","o","c","e","s","o",":">> \o procesos[i].name]),
                             !.executable_code.procesos =
                                 Append(@, [name |-> procesos[i].name,
                                            parameters |-> procesos[i].parameters,
                                            instructions |->
                                                compile_instructions(procesos[i].body, 1)])],
                  procesos[i]),
              LAMBDA B : visit_procesos_section(B, procesos, i + 1))

\* the loop over the variables of a robot, from the i-th on: the scope given
\* to a variable is made from the name of the variable, which shadows the
\* name of the robot
RECURSIVE DeclareRobotVariables(_, _, _)
DeclareRobotVariables(A, vars_of_robot, i) ==
    IF i > Len(vars_of_robot) THEN A
    ELSE IF vars_of_robot[i].node # "VariableDeclaration"
    THEN DeclareRobotVariables(A, vars_of_robot, i + 1)
    ELSE DeclareRobotVariables(
             declare_variable(A, vars_of_robot[i].name, vars_of_robot[i].variable_type,
                              <<"r","o","b","o","t",":">> \o vars_of_robot[i].name),
             vars_of_robot, i + 1)

\* the loop of visit_robots_section, from the i-th robot on
RECURSIVE visit_robots_section(_, _, _)
visit_robots_section(A, robots, i) ==
    IF i > Len(robots) THEN { A }
    ELSE IF robots[i].node # "Robot" THEN visit_robots_section(A, robots, i + 1)
    ELSE Then(Then(visit_block(
                       DeclareRobotVariables(
                           enter_scope(
                               [declare_variable(A, robots[i].name, <<"r","o","b","o","t">>, <<"g","l","o","b","a","l">>)
                                   EXCEPT !.executable_code.robots =
                                       Append(@, [name |-> robots[i].name,
                                                  instructions |->
                                                      compile_instructions(robots[i].body, 1),
                                                  position |-> << 0, 0 >>,
                                                  direction |-> <<"e","s","t","e">>,
                                                  bag |-> << 0, 0 >>,
                                                  active |-> FALSE])],
                               <<"r","o","b","o","t",":">> \o robots[i].name),
                           IF robots[i].variables = None THEN << >>
                           ELSE robots[i].variables[1],
                           1),
                       robots[i].body, 1),
                   exit_scope),
              LAMBDA B : visit_robots_section(B, robots, i + 1))

visit_main_block(A, body) ==
    Then(visit_block(
             [enter_scope(A, <<"m","a","i","n">>) EXCEPT !.executable_code.main =
                 compile_instructions(body, 1)],
             body, 1),
         exit_scope)

\* the number of the instructions of the robots that are not calls of procesos
RECURSIVE CountRobotInstructions(_)
CountRobotInstructions(robots) ==
    IF robots = << >> THEN 0
    ELSE Cardinality({ k \in 1..Len(Head(robots).instructions) :
                          Head(robots).instructions[k].kind # "ProcessCall" })
             + CountRobotInstructions(Tail(robots))

\* the sum of body_statements over the procesos
RECURSIVE CountProcessStatements(_)
CountProcessStatements(processes) ==
    IF processes = << >> THEN 0
    ELSE Head(processes).body_statements + CountProcessStatements(Tail(processes))

get_total_instructions(A) ==
    CountProcessStatements(A.processes_info)
        + CountRobotInstructions(A.executable_code.robots)
        + Len(A.executable_code.main)

get_analysis_summary_FirstErrorOnly(A) ==
    [total_instructions |-> get_total_instructions(A),
     total_processes |-> Len(A.processes_info),
     total_process_calls |-> Len(A.process_calls),
     valid_process_calls |->
         Cardinality({ k \in 1..Len(A.process_calls) : A.process_calls[k].is_valid }),
     total_errors |-> IF A.errors = << >> THEN 0 ELSE 1,
     total_variables |-> Len(A.symbol_table),
     total_robots |-> Len(A.executable_code.robots),
     total_areas |-> Len(A.executable_code.areas),
     total_conexiones |-> calculate_total_conexiones(A)]

get_analysis_summary(A) ==
    [total_instructions |-> get_total_instructions(A),
     total_processes |-> Len(A.processes_info),
     total_process_calls |-> Len(A.process_calls),
     valid_process_calls |->
         Cardinality({ k \in 1..Len(A.process_calls) : A.process_calls[k].is_valid }),
     total_errors |-> Len(A.errors),
     total_variables |-> Len(A.symbol_table),
     total_robots |-> Len(A.executable_code.robots),
     total_areas |-> Len(A.executable_code.areas),
     total_conexiones |-> calculate_total_conexiones(A)]

\* the SemanticAnalysisResult that analyze builds
SemanticAnalysisResult(A) ==
    [symbol_table |-> A.symbol_table,
     processes |-> A.processes_info,
     process_calls |-> A.process_calls,
     executable |-> A.executable_code,
     errors |-> A.errors,
     success |-> A.errors = << >>,
     summary |-> get_analysis_summary(A),
     communication_stats |-> get_communication_stats(A)]

----------------------------------------------------------------------------
(* Source texts of the lexer specification                                 *)

MaxLayoutLen == 5

MaxDelimLen == 3

LayoutChars == { " ", "\n", "a", "5", "\t", "\r" }

DelimChars == { "(", ")", "{", "}", "'", "+", ":", "=", "?", "\\", "n", " " }

SeqsUpTo(S, n) == UNION { [1..k -> S] : k \in 0..n }

MaxBracketLen == 4

BracketChars == { "{", "}", "(", ")", "\n", " ", "a" }

\* reserved words, words that differ from them in case or in a letter, type
\* names, boolean spellings, an instruction, an identifier and a number
Words ==
    { <<"p","r","o","c","e","s","o">>, <<"r","o","b","o","t">>, <<"v","a","r","i","a","b","l","e","s">>, <<"c","o","m","e","n","z","a","r">>, <<"f","i","n">>, <<"p","r","o","g","r","a","m","a">>, <<"p","r","o","c","e","s","o","s">>,
      <<"a","r","e","a","s">>, <<"r","o","b","o","t","s">>, <<"s","i">>, <<"s","i","n","o">>, <<"m","i","e","n","t","r","a","s">>, <<"r","e","p","e","t","i","r">>,
      <<"F","i","n">>, <<"S","I">>, <<"R","o","b","o","t">>, <<"s","i","n","o","s">>, <<"a","r","e","a">>, <<"m","o","v","e","r">>, <<"x">>, <<"5">>,
      <<"n","u","m","e","r","o">>, <<"b","o","o","l","e","a","n","o">>, <<"V">>, <<"F">>, <<"v">>, <<"f">>, <<"t","r","u","e">>, <<"f","a","l","s","e">>, <<"v","e","r","d","a","d","e","r","o">>,
      <<"f","a","l","s","o">>, <<"T","R","U","E">>, <<"F","a","l","s","e">>, <<"V","e","r","d","a","d","e","r","o">>, <<"F","A","L","S","O">> }

\* one word, or two words with a space between them
WordSources == Words \cup { first \o << " " >> \o second : first \in Words, second \in Words }

MaxIndentedLines == 4

\* the line `a` after 0 to 3 spaces
IndentedLines == { [i \in 1..(n + 1) |-> IF i <= n THEN " " ELSE "a"] : n \in 0..3 }

RECURSIVE JoinLines(_)
JoinLines(lines) ==
    IF lines = << >> THEN << >>
    ELSE IF Len(lines) = 1 THEN lines[1]
    ELSE lines[1] \o << "\n" >> \o JoinLines(Tail(lines))

\* the texts of one to MaxIndentedLines indented lines
IndentedSources ==
    { JoinLines(lines) : lines \in UNION { [1..k -> IndentedLines] : k \in 1..MaxIndentedLines } }

LexSources ==
    IndentedSources \cup
    SeqsUpTo(LayoutChars, MaxLayoutLen)
        \cup SeqsUpTo(DelimChars, MaxDelimLen)
        \cup SeqsUpTo(BracketChars, MaxBracketLen)
        \cup WordSources

----------------------------------------------------------------------------
(* Lexer::tokenize, one action per iteration of its main loop              *)

vars == << lexer, parsed, ast, analyzer, visiting, result >>

NotParsed == [res |-> "none", val |-> << >>, cur |-> 0, error |-> NoError]

\* main before it has an AST: a new analyzer, no call of analyze
NotAnalysed ==
    /\ ast = [node |-> "Program", name |-> << >>, body |-> << >>]
    /\ analyzer = SemanticAnalyzer_new
    /\ visiting = 0
    /\ result = None

Init ==
    /\ \E source \in LexSources : lexer = Lexer_new(source)
    /\ parsed = NotParsed
    /\ NotAnalysed

ReadComment ==
    /\ Arm(lexer) = "comment"
    /\ lexer' = read_comment(lexer)
    /\ UNCHANGED << parsed, ast, analyzer, visiting, result >>

OpenParenthesis ==
    /\ Arm(lexer) = "open_parenthesis"
    /\ lexer' = handle_open_parenthesis(lexer)
    /\ UNCHANGED << parsed, ast, analyzer, visiting, result >>

CloseParenthesis ==
    /\ Arm(lexer) = "close_parenthesis"
    /\ lexer' = handle_close_parenthesis(lexer)
    /\ UNCHANGED << parsed, ast, analyzer, visiting, result >>

NewLine ==
    /\ Arm(lexer) = "newline"
    /\ lexer' = newline(lexer)
    /\ UNCHANGED << parsed, ast, analyzer, visiting, result >>

HandleIndentation ==
    /\ Arm(lexer) = "indentation"
    /\ lexer' = handle_indentation(lexer)
    /\ UNCHANGED << parsed, ast, analyzer, visiting, result >>

SkipWhitespace ==
    /\ Arm(lexer) = "skip_whitespace"
    /\ lexer' = skip_whitespace_only(lexer)
    /\ UNCHANGED << parsed, ast, analyzer, visiting, result >>

ReadNumber ==
    /\ Arm(lexer) = "number"
    /\ lexer' = read_number(lexer)
    /\ UNCHANGED << parsed, ast, analyzer, visiting, result >>

ReadIdentifier ==
    /\ Arm(lexer) = "identifier"
    /\ lexer' = read_identifier(lexer)
    /\ UNCHANGED << parsed, ast, analyzer, visiting, result >>

ReadString ==
    /\ Arm(lexer) = "string"
    /\ lexer' = read_string(lexer)
    /\ UNCHANGED << parsed, ast, analyzer, visiting, result >>

ReadOperator ==
    /\ Arm(lexer) = "operator"
    /\ lexer' = read_operator(lexer)
    /\ UNCHANGED << parsed, ast, analyzer, visiting, result >>

UnexpectedCharacter ==
    /\ Arm(lexer) = "unexpected"
    /\ lexer' = unexpected_character(lexer)
    /\ UNCHANGED << parsed, ast, analyzer, visiting, result >>

EndOfInput ==
    /\ Arm(lexer) = "end_of_input"
    /\ lexer' = end_of_input(lexer)
    /\ UNCHANGED << parsed, ast, analyzer, visiting, result >>

Next ==
    \/ ReadComment
    \/ OpenParenthesis
    \/ CloseParenthesis
    \/ NewLine
    \/ HandleIndentation
    \/ SkipWhitespace
    \/ ReadNumber
    \/ ReadIdentifier
    \/ ReadString
    \/ ReadOperator
    \/ UnexpectedCharacter
    \/ EndOfInput

Spec == Init /\ [][Next]_vars

\* tokenize runs on: an iteration of the main loop that can be taken is taken
LiveSpec == Init /\ [][Next]_vars /\ WF_vars(Next)

----------------------------------------------------------------------------
(* The pipeline of main (main.rs): Lexer::tokenize, then Parser::parse on  *)
(* the tokens.  The source texts are programs `programa P / comenzar /     *)
(* body / fin` whose body is either a few lines of statements at several   *)
(* indentations or one assignment `x := e` with e a few operands and       *)
(* operators.                                                              *)

MaxBlockLines == 4

MaxExprLen == 5

Spaces(n) == [i \in 1..n |-> " "]

RECURSIVE Join(_, _)
\* the texts of seq with sep between them
Join(seq, sep) ==
    IF seq = << >> THEN << >>
    ELSE IF Len(seq) = 1 THEN seq[1]
    ELSE seq[1] \o sep \o Join(Tail(seq), sep)

ProgramText(body) ==
    Join(<< <<"p","r","o","g","r","a","m","a"," ","P">>, Kw.comenzar >> \o body \o << Kw.fin >>,
         << "\n" >>)

BlockStatements ==
    { <<"s","i"," ","V">>, <<"m","o","v","e","r">>, <<"d","e","r","e","c","h","a">>,
      Kw.sino, <<"r","e","p","e","t","i","r"," ","2">> }

BlockLines == { Spaces(n) \o st : n \in { 0, 2, 4 }, st \in BlockStatements }

ExprItems == { <<"a">>, <<"b">>, <<"c">>, <<"+">>, <<"*">>, <<"<">> }

ExprSource(items) == ProgramText(<< <<"x"," ",":","="," ">> \o Join(items, << " " >>) >>)

\* the boolean spellings, the type names and a number
LiteralWords ==
    { <<"V">>, <<"F">>, <<"v">>, <<"f">>, <<"t","r","u","e">>, <<"f","a","l","s","e">>, <<"v","e","r","d","a","d","e","r","o">>, <<"f","a","l","s","o">>,
      <<"T","R","U","E">>, <<"F","a","l","s","e">>, <<"V","e","r","d","a","d","e","r","o">>, <<"F","A","L","S","O">>, <<"n","u","m","e","r","o">>, <<"b","o","o","l","e","a","n","o">>, <<"5">> }

\* the program whose body assigns a word to x, then another word to x
LiteralSource(first, second) ==
    ProgramText(<< <<"x"," ",":","="," ">> \o first, <<"x"," ",":","="," ">> \o second >>)

\* the pieces of a program with an area, a proceso with a variable and a
\* main block
ProgramPieces ==
    << <<"p","r","o","g","r","a","m","a"," ">>, <<"P">>, << "\n" >>,
       <<"a","r","e","a","s">>, << "\n" >>, <<"a"," ">>, <<":"," ">>, <<"A","r","e","a","C">>, <<"(">>, <<"1">>, <<",">>, <<"1">>, <<",">>, <<"9">>, <<",">>,
       <<"9">>, <<")">>, << "\n" >>,
       <<"p","r","o","c","e","s","o","s">>, << "\n" >>, <<"p","r","o","c","e","s","o"," ">>, <<"q">>, << "\n" >>, <<"v","a","r","i","a","b","l","e","s">>, << "\n" >>,
       <<"x"," ">>, <<":"," ">>, <<"n","u","m","e","r","o">>, << "\n" >>, <<"c","o","m","e","n","z","a","r">>, << "\n" >>, <<"m","o","v","e","r">>, << "\n" >>,
       <<"f","i","n">>, << "\n" >>,
       <<"c","o","m","e","n","z","a","r">>, << "\n" >>, <<"m","o","v","e","r">>, << "\n" >>, <<"f","i","n">> >>

\* the program cut off after its first n pieces
TruncatedSource(n) == Join(SubSeq(ProgramPieces, 1, n), << >>)

\* the program `first second / comenzar / mover / fin`
HeaderSource(first, second) ==
    Join(<< first \o << " " >> \o second, Kw.comenzar, <<"m","o","v","e","r">>, Kw.fin >>, << "\n" >>)

HeaderWords == { <<"p","r","o","g","r","a","m","a">>, <<"r","o","b","o","t","s">>, <<"f","i","n">>, <<"s","i">>, <<"x">>, <<"P">>, <<"5">> }

\* the sections that may precede the robots of a program
LeadingSections ==
    { << >>,
      << <<"a","r","e","a","s">>, <<"a"," ",":"," ","A","r","e","a","C","(","1",",","1",",","9",",","9",")">> >>,
      << <<"p","r","o","c","e","s","o","s">>, <<"p","r","o","c","e","s","o"," ","q">>, <<"c","o","m","e","n","z","a","r">>, <<"m","o","v","e","r">>, <<"f","i","n">> >>,
      << <<"r","o","b","o","t","s">>, <<"r","o","b","o","t"," ","T","3">>, <<"c","o","m","e","n","z","a","r">>, <<"m","o","v","e","r">>, <<"f","i","n">> >> }

\* the names of the robot types; << >> stands for no declaration or instance
RobotTypes == { <<"T","1">>, <<"T","2">> }

\* what is written after the `:` of an instance
InstanceTypes == RobotTypes \cup { <<"T","3">>, <<"n","u","m","e","r","o">>, <<"5">> }

\* a `robots` section that declares one robot type
RobotsSection(tipo) ==
    IF tipo = << >> THEN << >>
    ELSE << <<"r","o","b","o","t","s">>, <<"r","o","b","o","t"," ">> \o tipo, <<"c","o","m","e","n","z","a","r">>, <<"m","o","v","e","r">>, <<"f","i","n">> >>

\* one line of the `variables` section of the program
InstanceLine(nombre, tipo) ==
    IF tipo = << >> THEN << >> ELSE << nombre \o <<" ",":"," ">> \o tipo >>

\* the program with the sections `leading`, a robots section that declares
\* `declarado`, and the instances `r : first` and `s : second`
InstanceSource(leading, declarado, first, second) ==
    Join(<< <<"p","r","o","g","r","a","m","a"," ","P">> >> \o leading \o RobotsSection(declarado)
         \o << <<"v","a","r","i","a","b","l","e","s">> >> \o InstanceLine(<<"r">>, first) \o InstanceLine(<<"s">>, second)
         \o << <<"c","o","m","e","n","z","a","r">>, <<"m","o","v","e","r">>, <<"f","i","n">> >>,
         << "\n" >>)

ParseInit ==
    /\ \/ \E n \in 0..MaxBlockLines : \E body \in [1..n -> BlockLines] :
              lexer = Lexer_new(ProgramText(body))
       \/ \E n \in 1..MaxExprLen : \E items \in [1..n -> ExprItems] :
              lexer = Lexer_new(ExprSource(items))
       \/ \E first \in LiteralWords : \E second \in LiteralWords :
              lexer = Lexer_new(LiteralSource(first, second))
       \/ \E first \in HeaderWords : \E second \in HeaderWords :
              lexer = Lexer_new(HeaderSource(first, second))
       \/ \E n \in 0..Len(ProgramPieces) : lexer = Lexer_new(TruncatedSource(n))
       \/ \E leading \in LeadingSections : \E declarado \in RobotTypes \cup { << >> } :
          \E first \in InstanceTypes : \E second \in InstanceTypes \cup { << >> } :
              lexer = Lexer_new(InstanceSource(leading, declarado, first, second))
    /\ parsed = NotParsed
    /\ NotAnalysed

\* main.rs: lx.tokenize()
Tokenize ==
    /\ lexer.status = "scanning"
    /\ lexer' = tokenize(lexer)
    /\ UNCHANGED << parsed, ast, analyzer, visiting, result >>

\* main.rs, the Ok(tokens) arm: Parser::new(&tokens).parse()
Parse ==
    /\ lexer.status = "ok"
    /\ parsed = NotParsed
    /\ parsed' = parse_programa(lexer.tokens)
    /\ UNCHANGED << lexer, ast, analyzer, visiting, result >>

ParseNext == Tokenize \/ Parse

ParseSpec == ParseInit /\ [][ParseNext]_vars

----------------------------------------------------------------------------
(* SemanticAnalyzer::analyze on a Program: one action for its start, one   *)
(* for each arm of the loop of visit_program over the sections, one for    *)
(* its end.  The programs have at most one declaring section, then at most *)
(* one section with a body of at most MaxBodyLen statements.               *)

MaxBodyLen == 2

EnviarMensaje ==
    [node |-> "ElementalInstruction", instruction |-> <<"E","n","v","i","a","r","M","e","n","s","a","j","e">>,
     parameters |-> << <<"R">> >>]

RecibirMensaje ==
    [node |-> "ElementalInstruction", instruction |-> <<"R","e","c","i","b","i","r","M","e","n","s","a","j","e">>,
     parameters |-> << <<"R">> >>]

Statements ==
    { [node |-> "Value", value |-> <<"x">>],
      [node |-> "Assignment", target |-> None, operator |-> <<":","=">>, value |-> <<"5">>],
      [node |-> "Assignment", target |-> None, operator |-> <<":","=">>, value |-> <<"V">>],
      [node |-> "Operator", operator |-> <<"+">>],
      [node |-> "ProcessCall", name |-> <<"f","o","o">>, parameters |-> << >>],
      [node |-> "ElementalInstruction", instruction |-> <<"m","o","v","e","r">>, parameters |-> << >>],
      EnviarMensaje,
      RecibirMensaje,
      [node |-> "IfStatement", condition |-> [expression |-> <<"x"," ","<"," ","5">>],
       consequent |-> << EnviarMensaje >>, alternate |-> Some(<< RecibirMensaje >>)],
      [node |-> "WhileStatement", condition |-> [expression |-> <<"V">>],
       body |-> << EnviarMensaje >>],
      [node |-> "RepeatStatement", count |-> <<"2">>, body |-> << RecibirMensaje >>] }

Bodies == SeqsUpTo(Statements, MaxBodyLen)

VariableDeclaration(name, variable_type) ==
    [node |-> "VariableDeclaration", name |-> name, variable_type |-> variable_type]

DeclaringSections ==
    { [node |-> "VariablesSection",
       declarations |-> << VariableDeclaration(<<"x">>, <<"n","u","m","e","r","o">>) >>],
      [node |-> "VariablesSection",
       declarations |-> << VariableDeclaration(<<"x">>, <<"b","o","o","l","e","a","n","o">>) >>],
      [node |-> "AreasSection",
       areas |-> << [node |-> "AreaDefinition", name |-> <<"A">>, area_type |-> <<"A","r","e","a","C">>,
                     dimensions |-> << <<"1">>, <<"1">>, <<"9">>, <<"9">> >>] >>],
      [node |-> "ProcesosSection",
       procesos |-> << [node |-> "Proceso", name |-> <<"f","o","o">>, parameters |-> << >>,
                        variables |-> None,
                        body |-> << [node |-> "ElementalInstruction",
                                     instruction |-> <<"m","o","v","e","r">>, parameters |-> << >>] >>] >>],
      [node |-> "Value", value |-> <<"x">>] }

RobotVariables ==
    { None,
      Some(<< VariableDeclaration(<<"n">>, <<"n","u","m","e","r","o">>) >>),
      Some(<< VariableDeclaration(<<"n">>, <<"n","u","m","e","r","o">>),
              VariableDeclaration(<<"m">>, <<"b","o","o","l","e","a","n","o">>) >>) }

ProcesoParameters ==
    { << >>, << [direction |-> <<"E">>, name |-> <<"x">>, param_type |-> <<"n","u","m","e","r","o">>] >> }

BodySections ==
    { [node |-> "RobotsSection",
       robots |-> << [node |-> "Robot", name |-> <<"R">>, variables |-> variables,
                      body |-> body] >>] :
          variables \in RobotVariables, body \in Bodies }
    \cup { [node |-> "ProcesosSection",
            procesos |-> << [node |-> "Proceso", name |-> <<"f","o","o">>,
                             parameters |-> parameters, variables |-> None,
                             body |-> body] >>] :
               parameters \in ProcesoParameters, body \in Bodies }
    \cup { [node |-> "MainBlock", body |-> body] : body \in Bodies }

MessageTo(instruction, name) ==
    [node |-> "ElementalInstruction", instruction |-> instruction, parameters |-> << name >>]

\* a body with at most one message to or from robot A or robot B
PairBodies ==
    { << >> }
        \cup { << MessageTo(instruction, name) >> :
                   instruction \in { <<"E","n","v","i","a","r","M","e","n","s","a","j","e">>, <<"R","e","c","i","b","i","r","M","e","n","s","a","j","e">> },
                   name \in { <<"A">>, <<"B">> } }

\* the robots sections with the two robots A and B
PairSections ==
    { [node |-> "RobotsSection",
       robots |-> << [node |-> "Robot", name |-> <<"A">>, variables |-> None, body |-> body_a],
                     [node |-> "Robot", name |-> <<"B">>, variables |-> None, body |-> body_b] >>] :
          body_a \in PairBodies, body_b \in PairBodies }

\* the statements `target := value` as visit_block reads them: a Value
\* followed by an Assignment
AssignTo(target, value) ==
    << [node |-> "Value", value |-> target],
       [node |-> "Assignment", target |-> None, operator |-> <<":","=">>, value |-> value] >>

Mover == [node |-> "ElementalInstruction", instruction |-> <<"m","o","v","e","r">>, parameters |-> << >>]

IfStatement(expression, consequent, alternate) ==
    [node |-> "IfStatement", condition |-> [expression |-> expression],
     consequent |-> consequent, alternate |-> alternate]

WhileStatement(expression, body) ==
    [node |-> "WhileStatement", condition |-> [expression |-> expression], body |-> body]

RepeatStatement(count, body) == [node |-> "RepeatStatement", count |-> count, body |-> body]

\* the constructs whose block is `block`
Conditionals(block) ==
    { IfStatement(<<"V">>, block, None),
      IfStatement(<<"V">>, << Mover >>, Some(block)),
      WhileStatement(<<"V">>, block),
      RepeatStatement(<<"2">>, block) }

\* what is written as the condition of a si or mientras and as the count of
\* a repetir
ConditionWords == { <<"5">>, <<"x">>, <<"V">>, <<"x"," ","<"," ","5">>, <<"x"," ","&"," ","V">>, <<"0">> }

\* main blocks that assign to x, in a conditional block or outside, and
\* read x; main blocks that declare x again; main blocks with one construct
ScopeBodies ==
    { << [node |-> "Value", value |-> <<"x">>] >>,
      AssignTo(<<"x">>, <<"5">>) \o << [node |-> "Value", value |-> <<"x">>] >>,
      << VariableDeclaration(<<"x">>, <<"n","u","m","e","r","o">>) >> \o AssignTo(<<"x">>, <<"5">>),
      << VariableDeclaration(<<"y">>, <<"n","u","m","e","r","o">>), VariableDeclaration(<<"y">>, <<"b","o","o","l","e","a","n","o">>) >>
          \o AssignTo(<<"y">>, <<"5">>) }
    \cup { << construct, [node |-> "Value", value |-> <<"x">>] >> :
               construct \in Conditionals(AssignTo(<<"x">>, <<"5">>)) }
    \cup { << construct >> :
               construct \in Conditionals(<< VariableDeclaration(<<"x">>, <<"n","u","m","e","r","o">>) >>
                                             \o AssignTo(<<"x">>, <<"5">>)) }
    \cup { prefix \o << construct >> :
               prefix \in { << >>, AssignTo(<<"x">>, <<"5">>), AssignTo(<<"x">>, <<"V">>) },
               construct \in { IfStatement(word, << Mover >>, None) : word \in ConditionWords }
                   \cup { WhileStatement(word, << Mover >>) : word \in ConditionWords }
                   \cup { RepeatStatement(word, << Mover >>) : word \in ConditionWords } }

\* the declarations of a variables section: one x, or x twice, then z
ScopeDeclarations ==
    { << VariableDeclaration(<<"x">>, first) >> : first \in { <<"n","u","m","e","r","o">>, <<"b","o","o","l","e","a","n","o">> } }
    \cup { << VariableDeclaration(<<"x">>, first), VariableDeclaration(<<"x">>, second),
              VariableDeclaration(<<"z">>, <<"n","u","m","e","r","o">>) >> :
               first \in { <<"n","u","m","e","r","o">>, <<"b","o","o","l","e","a","n","o">> }, second \in { <<"n","u","m","e","r","o">>, <<"b","o","o","l","e","a","n","o">> } }

Parameter(name, param_type) == [direction |-> <<"E">>, name |-> name, param_type |-> param_type]

Proceso(name, parameters, body) ==
    [node |-> "Proceso", name |-> name, parameters |-> parameters, variables |-> None,
     body |-> body]

\* sections that declare a proceso, a parameter or a robot type twice
DuplicateSections ==
    { [node |-> "ProcesosSection",
       procesos |-> << Proceso(<<"f","o","o">>, << >>, << Mover >>),
                       Proceso(<<"f","o","o">>, << Parameter(<<"x">>, <<"n","u","m","e","r","o">>) >>, << >>) >>],
      [node |-> "ProcesosSection",
       procesos |-> << Proceso(<<"f","o","o">>, << Parameter(<<"x">>, <<"n","u","m","e","r","o">>),
                                          Parameter(<<"x">>, <<"b","o","o","l","e","a","n","o">>) >>,
                               AssignTo(<<"x">>, <<"5">>)) >>],
      [node |-> "RobotsSection",
       robots |-> << [node |-> "Robot", name |-> <<"R">>, variables |-> None, body |-> << Mover >>],
                     [node |-> "Robot", name |-> <<"R">>, variables |-> None, body |-> << >>] >>] }

\* programs with a variables section and a main block, and programs with a
\* section that declares a name twice
ScopePrograms ==
    { [node |-> "Program", name |-> <<"P">>,
       body |-> << [node |-> "VariablesSection", declarations |-> declarations],
                   [node |-> "MainBlock", body |-> body] >>] :
          declarations \in ScopeDeclarations, body \in ScopeBodies }
    \cup { [node |-> "Program", name |-> <<"P">>, body |-> << section >>] :
               section \in DuplicateSections }

Programs ==
    { [node |-> "Program", name |-> <<"P">>, body |-> declaring \o with_body] :
          declaring \in { << >> } \cup { << section >> : section \in DeclaringSections },
          with_body \in { << >> } \cup { << section >> : section \in BodySections \cup PairSections } }

SemInit ==
    /\ lexer = Lexer_new(<< >>)
    /\ parsed = NotParsed
    /\ ast \in Programs \cup ScopePrograms
    /\ analyzer = SemanticAnalyzer_new
    /\ visiting = 0
    /\ result = None

\* analyze up to the loop of visit_program: the state is reset, the scope
\* "global" is entered
AnalyzeStart ==
    /\ visiting = 0
    /\ result = None
    /\ analyzer' =
           [enter_scope([SemanticAnalyzer_new EXCEPT !.current_scope = analyzer.current_scope],
                        <<"g","l","o","b","a","l">>)
               EXCEPT !.executable_code.programa = ast.name]
    /\ visiting' = 1
    /\ UNCHANGED << lexer, parsed, ast, result >>

VisitVariablesSection ==
    /\ result = None
    /\ visiting \in 1..Len(ast.body)
    /\ ast.body[visiting].node = "VariablesSection"
    /\ analyzer' = visit_variables_section(analyzer, ast.body[visiting].declarations, 1)
    /\ visiting' = visiting + 1
    /\ UNCHANGED << lexer, parsed, ast, result >>

VisitProcesosSection ==
    /\ result = None
    /\ visiting \in 1..Len(ast.body)
    /\ ast.body[visiting].node = "ProcesosSection"
    /\ analyzer' \in visit_procesos_section(analyzer, ast.body[visiting].procesos, 1)
    /\ visiting' = visiting + 1
    /\ UNCHANGED << lexer, parsed, ast, result >>

VisitRobotsSection ==
    /\ result = None
    /\ visiting \in 1..Len(ast.body)
    /\ ast.body[visiting].node = "RobotsSection"
    /\ analyzer' \in visit_robots_section(analyzer, ast.body[visiting].robots, 1)
    /\ visiting' = visiting + 1
    /\ UNCHANGED << lexer, parsed, ast, result >>

VisitMainBlock ==
    /\ result = None
    /\ visiting \in 1..Len(ast.body)
    /\ ast.body[visiting].node = "MainBlock"
    /\ analyzer' \in visit_main_block(analyzer, ast.body[visiting].body)
    /\ visiting' = visiting + 1
    /\ UNCHANGED << lexer, parsed, ast, result >>

VisitAreasSection ==
    /\ result = None
    /\ visiting \in 1..Len(ast.body)
    /\ ast.body[visiting].node = "AreasSection"
    /\ analyzer' = visit_areas_section(analyzer, ast.body[visiting].areas, 1)
    /\ visiting' = visiting + 1
    /\ UNCHANGED << lexer, parsed, ast, result >>

VisitUnrecognizedSection ==
    /\ result = None
    /\ visiting \in 1..Len(ast.body)
    /\ ast.body[visiting].node \notin
           { "VariablesSection", "ProcesosSection", "RobotsSection", "MainBlock",
             "AreasSection" }
    /\ analyzer' = PushError(analyzer, << "Seccion no reconocida en programa: ",
                                          ast.body[visiting] >>)
    /\ visiting' = visiting + 1
    /\ UNCHANGED << lexer, parsed, ast, result >>

\* the end of visit_program and the result that analyze builds
AnalyzeFinish ==
    /\ result = None
    /\ visiting = Len(ast.body) + 1
    /\ analyzer' \in exit_scope(analyzer)
    /\ result' = Some(SemanticAnalysisResult(analyzer'))
    /\ UNCHANGED << lexer, parsed, ast, visiting >>

SemNext ==
    \/ AnalyzeStart
    \/ VisitVariablesSection
    \/ VisitProcesosSection
    \/ VisitRobotsSection
    \/ VisitMainBlock
    \/ VisitAreasSection
    \/ VisitUnrecognizedSection
    \/ AnalyzeFinish

SemSpec == SemInit /\ [][SemNext]_vars

----------------------------------------------------------------------------
(* Properties of Lexer::tokenize                                           *)

CountType(tokens, token_type) ==
    Cardinality({ i \in 1..Len(tokens) : tokens[i].token_type = token_type })

IsLayoutToken(t) == t.token_type \in { "Indent", "Dedent", "EndFile" }

\* 0-based position of the first character of source line `line`
RECURSIVE LineStart(_, _, _)
LineStart(chars, line, position) ==
    IF line <= 1 \/ position >= Len(chars) THEN position
    ELSE IF chars[position + 1] = "\n"
    THEN LineStart(chars, line - 1, position + 1)
    ELSE LineStart(chars, line, position + 1)

\* leading whitespace of source line `line`: its end position and its width
LineIndent(chars, line) == IndentScan(chars, LineStart(chars, line, 0), 0)

\* the last token is the first token of its line and follows the line's
\* leading whitespace directly
LastIsFirstOfLine(L) ==
    /\ L.tokens # << >>
    /\ ~IsLayoutToken(Last(L.tokens))
    /\ \A i \in 1..(Len(L.tokens) - 1) :
          IsLayoutToken(L.tokens[i]) \/ L.tokens[i].line # Last(L.tokens).line
    /\ LET start == LineStart(L.chars, Last(L.tokens).line, 0)
       IN  Last(L.tokens).column - 1 = LineIndent(L.chars, Last(L.tokens).line).position - start

\* C1: whenever tokenize succeeds, the returned tokens hold as many Dedent
\* as Indent tokens and exactly one EndFile token, which is the last token.
C1_IndentDedentBalanced ==
    tokenize_result(lexer).ok =>
        LET tokens == tokenize_result(lexer).tokens
        IN  /\ CountType(tokens, "Indent") = CountType(tokens, "Dedent")
            /\ CountType(tokens, "EndFile") = 1
            /\ Last(tokens).token_type = "EndFile"

\* tokenize succeeded on a text with two nested indentation levels
C1_Witness ==
    /\ tokenize_result(lexer).ok
    /\ CountType(tokenize_result(lexer).tokens, "Indent") >= 2

\* C2: when the first token of a line of indentation n has been emitted,
\* every indent-stack entry greater than n has been popped (one Dedent
\* each), also when n = 0.
C2_DedentBeforeFirstToken ==
    (lexer.status # "err" /\ LastIsFirstOfLine(lexer)) =>
        Last(lexer.indent_stack) <= LineIndent(lexer.chars, Last(lexer.tokens).line).indent

----------------------------------------------------------------------------
(* Properties of Parser::parse on the tokens of a source text              *)

\* the statements of the main block of a parsed Program
MainInstrucciones(program) ==
    IF program.robots_definidos # << >>
       /\ Last(program.robots_definidos).nombre = Kw.main
    THEN Last(program.robots_definidos).instrucciones
    ELSE << >>

NumLines(chars) == 1 + Cardinality({ i \in 1..Len(chars) : chars[i] = "\n" })

\* the tokens of source line `line`, layout tokens left out
LineTokens(tokens, line) ==
    SelectSeq(tokens, LAMBDA t : t.line = line /\ ~IsLayoutToken(t))

\* the source is `programa P / comenzar / body / fin`; its body lines
BodyLines(L) == 3..(NumLines(L.chars) - 1)

IsProgramText(L) ==
    /\ NumLines(L.chars) >= 3
    /\ Len(LineTokens(L.tokens, 1)) = 2
    /\ LineTokens(L.tokens, 1)[1].value = Kw.programa
    /\ LineTokens(L.tokens, 2) = << Token("Keyword", Kw.comenzar, 2, 1) >>
    /\ Len(LineTokens(L.tokens, NumLines(L.chars))) = 1
    /\ LineTokens(L.tokens, NumLines(L.chars))[1].value = Kw.fin

FirstToken(L, line) == LineTokens(L.tokens, line)[1]

IsHeaderLine(L, line) ==
    /\ Len(LineTokens(L.tokens, line)) = 2
    /\ FirstToken(L, line).token_type = "ControlSentence"
    /\ FirstToken(L, line).value # Kw.sino
    /\ LineTokens(L.tokens, line)[2].token_type \in { "BoolValue", "Num" }

IsCallLine(L, line) ==
    /\ Len(LineTokens(L.tokens, line)) = 1
    /\ FirstToken(L, line).token_type = "ElementalInstruction"

IsSinoLine(L, line) ==
    /\ Len(LineTokens(L.tokens, line)) = 1
    /\ FirstToken(L, line).value = Kw.sino

IndentOf(L, line) == LineIndent(L.chars, line).indent

\* every body line is one call or one control header; a header is followed
\* by a deeper line (its block), any other line by a line at its own
\* indentation or at the indentation of an earlier line
IsBlockProgram(L) ==
    /\ IsProgramText(L)
    /\ BodyLines(L) # { }
    /\ \A j \in BodyLines(L) :
          /\ IsHeaderLine(L, j) \/ IsCallLine(L, j)
          /\ IsHeaderLine(L, j) => (j + 1 \in BodyLines(L) /\ IndentOf(L, j + 1) > IndentOf(L, j))
          /\ (IsCallLine(L, j) /\ j + 1 \in BodyLines(L)) =>
                /\ IndentOf(L, j + 1) <= IndentOf(L, j)
                /\ \E m \in 3..j : IndentOf(L, m) = IndentOf(L, j + 1)

\* the number of control constructs whose indented block holds line k
BlockDepth(L, k) ==
    Cardinality({ j \in 3..(k - 1) :
                    /\ IsHeaderLine(L, j)
                    /\ \A m \in (j + 1)..k : IndentOf(L, m) > IndentOf(L, j) })

\* the statements of the body in source order, each with its block depth
SourceStatements(L) ==
    [i \in 1..Cardinality(BodyLines(L)) |-> << FirstToken(L, i + 2).value, BlockDepth(L, i + 2) >>]

RECURSIVE ParsedStatements(_, _)
\* the statements of a parsed statement list in source order (a construct
\* before its body), each with the number of constructs that contain it
ParsedStatements(instrucciones, depth) ==
    IF instrucciones = << >> THEN << >>
    ELSE LET instr == Head(instrucciones)
             own == CASE instr.tipo = "Si" ->
                            << << Kw.si, depth >> >>
                            \o ParsedStatements(instr.entonces \o instr.sino, depth + 1)
                      [] instr.tipo = "Mientras" ->
                            << << Kw.mientras, depth >> >>
                            \o ParsedStatements(instr.cuerpo, depth + 1)
                      [] instr.tipo = "Repetir" ->
                            << << Kw.repetir, depth >> >>
                            \o ParsedStatements(instr.cuerpo, depth + 1)
                      [] instr.tipo = "LlamadaFuncion" -> << << instr.nombre, depth >> >>
                      [] instr.tipo = "Asignacion" -> << << instr.variable, depth >> >>
         IN  own \o ParsedStatements(Tail(instrucciones), depth)

\* C3: in a program of calls and control constructs whose conditions are
\* followed by an indented block, the body of each construct holds exactly
\* the statements of its block: every statement is parsed into the
\* constructs whose block holds its line and into no other, so a statement
\* that follows a block at a smaller indentation (also at column 1, also
\* after a nested block) is not in the body.
C3_BodyIsIndentedBlock ==
    (parsed.res = "ok" /\ IsBlockProgram(lexer)) =>
        ParsedStatements(MainInstrucciones(parsed.val), 0) = SourceStatements(lexer)

\* the body is `si V`, a call, `sino`, a call: the `sino` line at the
\* indentation of the `si` line, each call in a block or as a single statement
IsIfElseProgram(L) ==
    /\ IsProgramText(L)
    /\ BodyLines(L) = 3..6
    /\ IsHeaderLine(L, 3)
    /\ LineTokens(L.tokens, 3) = << Token("ControlSentence", Kw.si, 3, IndentOf(L, 3) + 1),
                                    Token("BoolValue", << "V" >>, 3, IndentOf(L, 3) + 4) >>
    /\ IsCallLine(L, 4)
    /\ IsSinoLine(L, 5)
    /\ IsCallLine(L, 6)
    /\ IndentOf(L, 5) = IndentOf(L, 3)
    /\ IndentOf(L, 4) >= IndentOf(L, 3)
    /\ IndentOf(L, 6) \in { IndentOf(L, 3), IndentOf(L, 4) }

\* C4: the statements after `sino` are the sino branch of the same Si, be
\* the then-block an indented block or a single statement.
C4_SinoIsElseBranch ==
    (parsed.res = "ok" /\ IsIfElseProgram(lexer)) =>
        MainInstrucciones(parsed.val) =
            << Si(Booleano(TRUE),
                  << LlamadaFuncion(FirstToken(lexer, 4).value, << >>) >>,
                  << LlamadaFuncion(FirstToken(lexer, 6).value, << >>) >>) >>

\* precedence level of a binary operator in the expression grammar
Precedence(operador) ==
    IF operador \in { "*", "/", "&" } THEN 3
    ELSE IF operador \in { "+", "-", "|" } THEN 2
    ELSE 1

\* the body is the one line `x := o1 p1 o2 p2 o3` with identifiers o and
\* binary operators p
IsTwoOperatorAssignment(L) ==
    /\ IsProgramText(L)
    /\ BodyLines(L) = { 3 }
    /\ LET t == LineTokens(L.tokens, 3)
       IN  /\ Len(t) = 7
           /\ t[1].token_type = "Identifier"
           /\ t[2].token_type = "Assign"
           /\ \A i \in { 3, 5, 7 } : t[i].token_type = "Identifier"
           /\ \A i \in { 4, 6 } : es_operador_binario(t[i])

\* C5: in `x := o1 p1 o2 p2 o3` an operator p2 of a higher precedence level
\* than p1 takes its operands first: the value is o1 p1 (o2 p2 o3).
C5_PrecedenceLevels ==
    (parsed.res = "ok" /\ IsTwoOperatorAssignment(lexer)) =>
        LET t == LineTokens(lexer.tokens, 3)
            p1 == OperadorDe(t[4].token_type)
            p2 == OperadorDe(t[6].token_type)
        IN  Precedence(p2) > Precedence(p1) =>
                MainInstrucciones(parsed.val) =
                    << Asignacion(t[1].value,
                                  Binaria(Identificador(t[3].value), p1,
                                          Binaria(Identificador(t[5].value), p2,
                                                  Identificador(t[7].value)))) >>

\* the first statement of the main block starts at token 4 and does not parse
FirstStatementFails(L) ==
    /\ Len(L.tokens) >= 4
    /\ IsKeyword(L.tokens, 1, Kw.programa)
    /\ IsKeyword(L.tokens, 3, Kw.comenzar)
    /\ ~IsLayout(L.tokens, 4)
    /\ ~IsKeyword(L.tokens, 4, Kw.fin)
    /\ parse_instruccion(L.tokens, 4).res = "err"

\* C6: when a statement fails to parse, parse returns Err with that first
\* failure; it never returns a Program after skipping the statement's tokens.
C6_NoErrorRecovery ==
    (parsed.res # "none" /\ FirstStatementFails(lexer)) =>
        /\ parsed.res = "err"
        /\ parsed.error = parse_instruccion(lexer.tokens, 4).error

----------------------------------------------------------------------------
(* Properties of SemanticAnalyzer::analyze                                 *)

\* the robots or the procesos that a section of the program defines
EntityList(section) ==
    IF section.node = "RobotsSection" THEN section.robots
    ELSE IF section.node = "ProcesosSection" THEN section.procesos
    ELSE << >>

\* the places of the robots or procesos in the first n sections of the program
EntitiesIn(n, section_node) ==
    UNION { { << i, j >> : j \in 1..Len(EntityList(ast.body[i])) } :
            i \in { i \in 1..n : ast.body[i].node = section_node } }

\* analyze has a next step: the loop of visit_program has a section to visit,
\* whose visit leaves an analyzer, or it is at its end
AnalyzeGoesOn ==
    \/ visiting = 0
    \/ /\ visiting \in 1..Len(ast.body)
       /\ CASE ast.body[visiting].node = "ProcesosSection" ->
                    visit_procesos_section(analyzer, ast.body[visiting].procesos, 1) # { }
              [] ast.body[visiting].node = "RobotsSection" ->
                    visit_robots_section(analyzer, ast.body[visiting].robots, 1) # { }
              [] ast.body[visiting].node = "MainBlock" ->
                    visit_main_block(analyzer, ast.body[visiting].body) # { }
              [] OTHER -> TRUE
    \/ visiting = Len(ast.body) + 1 /\ exit_scope(analyzer) # { }

\* C7: analyze goes on to its end whatever errors it has recorded, the
\* executable code holds an entry for every robot and proceso of the
\* sections visited so far, and the result it returns carries that
\* executable code, has success true exactly when errors is empty and has
\* summary.total_errors equal to the number of errors.
C7_AnalyzeAlwaysReturnsResult ==
    /\ result = None => AnalyzeGoesOn
    /\ visiting > 0 =>
           /\ analyzer.executable_code.programa = ast.name
           /\ Len(analyzer.executable_code.robots)
                  = Cardinality(EntitiesIn(visiting - 1, "RobotsSection"))
           /\ Len(analyzer.executable_code.procesos)
                  = Cardinality(EntitiesIn(visiting - 1, "ProcesosSection"))
    /\ result # None =>
           /\ visiting = Len(ast.body) + 1
           /\ result[1].executable = analyzer.executable_code
           /\ result[1].errors = analyzer.errors
           /\ result[1].success <=> (result[1].errors = << >>)
           /\ result[1].summary.total_errors = Len(result[1].errors)

\* analyze has returned with an error of the first section and more errors
\* of the robots section after it, whose robot is in the executable code
C7_Witness ==
    /\ result # None
    /\ Len(ast.body) = 2
    /\ ast.body[2].node = "RobotsSection"
    /\ Len(result[1].errors) >= 2
    /\ result[1].errors[1].message[1] = "Seccion no reconocida en programa: "
    /\ Len(result[1].executable.robots) = 1
    /\ ~result[1].success

\* the number of nodes of a variant in statements and the blocks nested in them
RECURSIVE CountNodes(_, _)
CountNodes(statements, node) ==
    IF statements = << >> THEN 0
    ELSE (IF Head(statements).node = node THEN 1 ELSE 0)
         + (CASE Head(statements).node = "IfStatement" ->
                     CountNodes(Head(statements).consequent, node)
                     + (IF Head(statements).alternate = None THEN 0
                        ELSE CountNodes(Head(statements).alternate[1], node))
              [] Head(statements).node \in { "WhileStatement", "RepeatStatement" } ->
                     CountNodes(Head(statements).body, node)
              [] OTHER -> 0)
         + CountNodes(Tail(statements), node)

\* the names and types that a robot or a proceso declares for its body
Locals(entity) ==
    IF entity.node = "Robot"
    THEN IF entity.variables = None THEN { }
         ELSE { [name |-> entity.variables[1][k].name,
                 type |-> entity.variables[1][k].variable_type] :
                k \in 1..Len(entity.variables[1]) }
    ELSE { [name |-> entity.parameters[k].name, type |-> entity.parameters[k].param_type] :
           k \in 1..Len(entity.parameters) }

\* the bodies of the program: of its robots, of its procesos, of its main block
Blocks ==
    UNION { IF ast.body[i].node = "MainBlock"
            THEN { [body |-> ast.body[i].body, locals |-> { }, at |-> << i, 1 >>] }
            ELSE { [body |-> EntityList(ast.body[i])[j].body,
                    locals |-> Locals(EntityList(ast.body[i])[j]),
                    at |-> << i, j >>] : j \in 1..Len(EntityList(ast.body[i])) } :
            i \in 1..Len(ast.body) }

\* the types with which name is declared for a block: by the robot or proceso
\* of the block, else by the variables sections before it
TypesOf(block, name) ==
    IF \E local \in block.locals : local.name = name
    THEN { local.type : local \in { l \in block.locals : l.name = name } }
    ELSE UNION { { ast.body[i].declarations[k].variable_type :
                   k \in { k \in 1..Len(ast.body[i].declarations) :
                              ast.body[i].declarations[k].name = name } } :
                 i \in { i \in 1..(block.at[1] - 1) : ast.body[i].node = "VariablesSection" } }

\* the type of a literal of the language, << >> for a text that is no literal
LiteralType(value) ==
    IF value \in { <<"V">>, <<"F">> } THEN <<"b","o","o","l","e","a","n","o">>
    ELSE IF value # << >> /\ \A k \in 1..Len(value) : is_ascii_digit(value[k]) THEN <<"n","u","m","e","r","o">>
    ELSE << >>

\* the block starts with the only assignment of the program, of a literal to
\* a variable declared with the other type
MismatchedAssignment(block) ==
    /\ Len(block.body) >= 2
    /\ block.body[1].node = "Value"
    /\ block.body[2].node = "Assignment"
    /\ LiteralType(block.body[2].value) # << >>
    /\ TypesOf(block, block.body[1].value) \in { { <<"n","u","m","e","r","o">> }, { <<"b","o","o","l","e","a","n","o">> } }
    /\ LiteralType(block.body[2].value) \notin TypesOf(block, block.body[1].value)
    /\ CountNodes(block.body, "Assignment") = 1
    /\ \A other \in Blocks \ { block } : CountNodes(other.body, "Assignment") = 0

IsIncompatibleTypes(error) ==
    error.message[1] \in
        { "Tipo incompatible: no se puede asignar numero a variable de tipo '",
          "Tipo incompatible: no se puede asignar booleano a variable de tipo '",
          "Tipo incompatible: no se puede asignar " }

\* the instruction sequences of the executable code
InstructionLists(executable) ==
    { executable.main }
        \cup { executable.robots[k].instructions : k \in 1..Len(executable.robots) }
        \cup { executable.procesos[k].instructions : k \in 1..Len(executable.procesos) }

HasSelfRecursiveProceso ==
    \E i \in 1..Len(ast.body) :
        /\ ast.body[i].node = "ProcesosSection"
        /\ \E j \in 1..Len(ast.body[i].procesos) :
               \E k \in 1..Len(ast.body[i].procesos[j].body) :
                   /\ ast.body[i].procesos[j].body[k].node = "ProcessCall"
                   /\ ast.body[i].procesos[j].body[k].name = ast.body[i].procesos[j].name

\* C9: the result of analysing a program with a proceso whose body calls the
\* proceso itself has success false, an error being recorded for the call.
C9_SelfRecursionRejected ==
    (result # None /\ HasSelfRecursiveProceso) => ~result[1].success

\* the parameters of the elemental instructions of a name in statements and
\* in the blocks nested in them
RECURSIVE Messages(_, _)
Messages(statements, instruction) ==
    IF statements = << >> THEN << >>
    ELSE (CASE Head(statements).node = "ElementalInstruction" ->
                   IF Head(statements).instruction = instruction
                   THEN << Head(statements).parameters >> ELSE << >>
            [] Head(statements).node = "IfStatement" ->
                   Messages(Head(statements).consequent, instruction)
                   \o (IF Head(statements).alternate = None THEN << >>
                       ELSE Messages(Head(statements).alternate[1], instruction))
            [] Head(statements).node \in { "WhileStatement", "RepeatStatement" } ->
                   Messages(Head(statements).body, instruction)
            [] OTHER -> << >>)
         \o Messages(Tail(statements), instruction)

\* the messages of an instruction in the bodies of the robots and procesos,
\* each with the name of its robot or proceso
MessageSites(instruction) ==
    UNION { UNION { { [entity |-> EntityList(ast.body[i])[j].name,
                       parameters |-> Messages(EntityList(ast.body[i])[j].body, instruction)[k],
                       at |-> << i, j, k >>] :
                      k \in 1..Len(Messages(EntityList(ast.body[i])[j].body, instruction)) } :
                    j \in 1..Len(EntityList(ast.body[i])) } :
            i \in 1..Len(ast.body) }

\* the value of a counter of a HashMap<String, usize>, 0 for a missing key
CountOf(map, key) == IF key \in DOMAIN map THEN map[key] ELSE 0

\* C10: after analyze of a program without main block, sends[S] is the
\* number of EnviarMensaje in the body of robot or proceso S, blocks nested
\* in si, mientras and repetir included, receives[S] the number of its
\* RecibirMensaje, no other entity has a count, and the connections are
\* S->target for each of these EnviarMensaje and source->S for each of
\* these RecibirMensaje.
C10_MessagesAttributedToEntity ==
    (result # None /\ \A i \in 1..Len(ast.body) : ast.body[i].node # "MainBlock") =>
        LET comm == analyzer.message_communications
            sent == MessageSites(<<"E","n","v","i","a","r","M","e","n","s","a","j","e">>)
            received == MessageSites(<<"R","e","c","i","b","i","r","M","e","n","s","a","j","e">>)
        IN /\ \A S \in DOMAIN comm.sends \cup { m.entity : m \in sent } :
                  CountOf(comm.sends, S) = Cardinality({ m \in sent : m.entity = S })
           /\ \A S \in DOMAIN comm.receives \cup { m.entity : m \in received } :
                  CountOf(comm.receives, S) = Cardinality({ m \in received : m.entity = S })
           /\ comm.connections =
                  { m.entity \o <<"-",">">> \o m.parameters[1] :
                    m \in { m \in sent : m.parameters # << >> } }
                  \cup { m.parameters[1] \o <<"-",">">> \o m.entity :
                         m \in { m \in received : m.parameters # << >> } }

----------------------------------------------------------------------------
(* Properties of the communication statistics                              *)

\* the pairs << a, b >> of which the connection key is a->b
EdgesOf(conn) ==
    { << SubSeq(conn, 1, k - 1), SubSeq(conn, k + 2, Len(conn)) >> :
      k \in { k \in 1..(Len(conn) - 1) : conn[k] = "-" /\ conn[k + 1] = ">" } }

\* the recorded connections, as pairs << sender, receiver >>
Edges == UNION { EdgesOf(conn) : conn \in analyzer.message_communications.connections }

\* the program is the robots section of robot A with body EnviarMensaje(B)
\* and robot B with body RecibirMensaje(A), after any declaring section
IsPairProgram ==
    /\ ast.body # << >>
    /\ Last(ast.body).node = "RobotsSection"
    /\ Len(Last(ast.body).robots) = 2
    /\ Last(ast.body).robots[1].name = <<"A">>
    /\ Last(ast.body).robots[1].body = << MessageTo(<<"E","n","v","i","a","r","M","e","n","s","a","j","e">>, <<"B">>) >>
    /\ Last(ast.body).robots[2].name = <<"B">>
    /\ Last(ast.body).robots[2].body = << MessageTo(<<"R","e","c","i","b","i","r","M","e","n","s","a","j","e">>, <<"A">>) >>

\* C11: in the result of analyze effective_connections is the number of
\* recorded connections a->b with receives[b] > 0 and is at most
\* total_connections; for robot A with body EnviarMensaje(B) and robot B with
\* body RecibirMensaje(A) the only connection is A->B, effective_connections
\* is 1, and by_robot holds A with sends 1 and B with receives 1.
C11_EffectiveConnections ==
    result # None =>
        LET comm == analyzer.message_communications
            stats == result[1].communication_stats
        IN /\ stats.effective_connections =
                  Cardinality({ e \in Edges : CountOf(comm.receives, e[2]) > 0 })
           /\ stats.effective_connections <= stats.total_connections
           /\ stats.total_connections = Cardinality(comm.connections)
           /\ IsPairProgram =>
                  /\ comm.connections = { <<"A","-",">","B">> }
                  /\ stats.effective_connections = 1
                  /\ \E a \in stats.by_robot : a.name = <<"A">> /\ a.sends = 1
                  /\ \E b \in stats.by_robot : b.name = <<"B">> /\ b.receives = 1

\* analyze has returned for the program of robot A sending to robot B and
\* robot B receiving from robot A
C11_Witness ==
    /\ result # None
    /\ IsPairProgram
    /\ result[1].communication_stats.effective_connections = 1


\* C12: after analyze, for every entity e sends[e] is the number of recorded
\* connections that leave e and receives[e] the number of recorded
\* connections that enter e, and total_sends and total_receives are the
\* number of recorded connections.
C12_CountersMatchEdges ==
    result # None =>
        LET comm == analyzer.message_communications
            stats == result[1].communication_stats
            entities == DOMAIN comm.sends \cup DOMAIN comm.receives
                            \cup { e[1] : e \in Edges } \cup { e[2] : e \in Edges }
        IN /\ \A e \in entities :
                  /\ CountOf(comm.sends, e) = Cardinality({ c \in Edges : c[1] = e })
                  /\ CountOf(comm.receives, e) = Cardinality({ c \in Edges : c[2] = e })
           /\ stats.total_sends = Cardinality(Edges)
           /\ stats.total_receives = Cardinality(Edges)

----------------------------------------------------------------------------
(* Properties of the errors of Lexer::tokenize                             *)

\* the line of the character at a position of the source, from 1
LineOf(chars, position) == 1 + Cardinality({ k \in 1..position : chars[k] = "\n" })

\* the column of the character at a position of the source, from 1
ColumnOf(chars, position) ==
    LET breaks == { k \in 1..position : chars[k] = "\n" }
    IN IF breaks = { } THEN position + 1
       ELSE position + 1 - (CHOOSE k \in breaks : \A j \in breaks : j <= k)

\* the main loop of tokenize is at a `{` that no `}` follows
AtUnclosedComment ==
    /\ Arm(lexer) = "comment"
    /\ \A k \in (lexer.position + 2)..Len(lexer.chars) : lexer.chars[k] # "}"

RECURSIVE OpenTokens(_, _)
OpenTokens(tokens, open) ==
    IF tokens = << >> THEN open
    ELSE IF Head(tokens).token_type = "OpenedParenthesis"
    THEN OpenTokens(Tail(tokens), Append(open, << Head(tokens).line, Head(tokens).column >>))
    ELSE IF Head(tokens).token_type = "ClosedParenthesis" /\ open # << >>
    THEN OpenTokens(Tail(tokens), Pop(open))
    ELSE OpenTokens(Tail(tokens), open)

\* the characters of the source at a line and a column
CharsAt(chars, line, column) ==
    { chars[k + 1] : k \in { k \in 0..(Len(chars) - 1) :
                                LineOf(chars, k) = line /\ ColumnOf(chars, k) = column } }

RECURSIVE Indentation(_, _)
Indentation(chars, position) ==
    IF position >= Len(chars) THEN 0
    ELSE IF chars[position + 1] = " " THEN 1 + Indentation(chars, position + 1)
    ELSE IF chars[position + 1] = "\t" THEN 4 + Indentation(chars, position + 1)
    ELSE 0

\* the line that starts at a position holds only spaces and tabs
RECURSIVE IsBlankLine(_, _)
IsBlankLine(chars, position) ==
    \/ position >= Len(chars)
    \/ chars[position + 1] = "\n"
    \/ chars[position + 1] \in { " ", "\t" } /\ IsBlankLine(chars, position + 1)

\* the main loop of tokenize is at the first character of a line
AtLineStart ==
    /\ lexer.status = "scanning"
    /\ lexer.position < Len(lexer.chars)
    /\ lexer.position = 0 \/ lexer.chars[lexer.position] = "\n"

\* the line at which tokenize is has an indentation below the top of the
\* indent stack that is not a level of the stack
AtInconsistentLine ==
    /\ AtLineStart
    /\ ~IsBlankLine(lexer.chars, lexer.position)
    /\ Indentation(lexer.chars, lexer.position) < Last(lexer.indent_stack)
    /\ \A k \in 1..Len(lexer.indent_stack) :
           lexer.indent_stack[k] # Indentation(lexer.chars, lexer.position)

\* C15: at a line that is not blank and whose indentation n is below the top
\* of the indent stack and is not left on top by popping the entries above
\* n, tokenize returns the inconsistent-indentation error with the number of
\* that line, and returns no tokens.
C15_InconsistentIndentation ==
    [][AtInconsistentLine =>
           /\ lexer'.status = "err"
           /\ lexer'.error = CompilerError("Indentacion inconsistente",
                                           LineOf(lexer.chars, lexer.position), 1)
           /\ tokenize_result(lexer') =
                  [ok |-> FALSE, tokens |-> << >>, error |-> lexer'.error]]_vars

\* tokenize has returned the inconsistent-indentation error after it had
\* produced a Dedent token for the line
C15_Witness ==
    /\ lexer.status = "err"
    /\ lexer.error.message = "Indentacion inconsistente"
    /\ lexer.tokens # << >>
    /\ Last(lexer.tokens).token_type = "Dedent"
    /\ Last(lexer.tokens).line = lexer.error.line

\* the position after the last line break before a position of the source
StartOfLine(chars, position) ==
    LET breaks == { k \in 1..position : chars[k] = "\n" }
    IN IF breaks = { } THEN 0 ELSE CHOOSE k \in breaks : \A j \in breaks : j <= k

\* the position of the first line break after a position, else the end
EndOfLine(chars, position) ==
    LET breaks == { k \in (position + 1)..Len(chars) : chars[k] = "\n" }
    IN IF breaks = { } THEN Len(chars) ELSE (CHOOSE k \in breaks : \A j \in breaks : k <= j) - 1

\* the main loop of tokenize is in a line that is empty or holds only
\* whitespace
InBlankLine ==
    /\ lexer.status = "scanning"
    /\ lexer.position < Len(lexer.chars)
    /\ \A k \in (StartOfLine(lexer.chars, lexer.position) + 1)
                    ..EndOfLine(lexer.chars, lexer.position) :
           is_whitespace(lexer.chars[k])

\* C16: the steps of tokenize in a line that is empty or holds only
\* whitespace add no Indent and no Dedent token and leave the indent stack
\* as it is.
C16_BlankLineNoLayout ==
    [][InBlankLine =>
           /\ lexer'.indent_stack = lexer.indent_stack
           /\ CountType(lexer'.tokens, "Indent") = CountType(lexer.tokens, "Indent")
           /\ CountType(lexer'.tokens, "Dedent") = CountType(lexer.tokens, "Dedent")]_vars

----------------------------------------------------------------------------
(* Properties of the layout tokens of Lexer::tokenize                      *)

\* the source text with every tab of the leading whitespace of a line
\* replaced by four spaces, from the k-th character on
RECURSIVE TabsToSpaces(_, _, _)
TabsToSpaces(chars, k, leading) ==
    IF k > Len(chars) THEN << >>
    ELSE IF leading /\ chars[k] = "\t"
    THEN << " ", " ", " ", " " >> \o TabsToSpaces(chars, k + 1, TRUE)
    ELSE << chars[k] >>
             \o TabsToSpaces(chars, k + 1, chars[k] = "\n" \/ (leading /\ chars[k] = " "))

\* the kinds and lexemes of a token sequence
KindsAndLexemes(tokens) == [i \in 1..Len(tokens) |-> << tokens[i].token_type, tokens[i].value >>]

C18_NoLayoutInsideParentheses ==
    [][(lexer.paren_stack # << >> /\ Arm(lexer) \in { "newline", "indentation" }) =>
           /\ lexer'.indent_stack = lexer.indent_stack
           /\ CountType(lexer'.tokens, "Indent") = CountType(lexer.tokens, "Indent")
           /\ CountType(lexer'.tokens, "Dedent") = CountType(lexer.tokens, "Dedent")]_vars

----------------------------------------------------------------------------
(* Properties of the kinds of the words                                    *)

\* C19: a token that is not a string has kind Keyword exactly when its
\* lexeme is one of proceso, robot, variables, comenzar, fin, programa,
\* procesos, areas, robots, and kind ControlSentence exactly when its lexeme
\* is one of si, sino, mientras, repetir, in this very spelling.
C19_ReservedWordKinds ==
    \A i \in 1..Len(lexer.tokens) :
        lexer.tokens[i].token_type # "Str" =>
            /\ lexer.tokens[i].token_type = "Keyword" <=>
                   lexer.tokens[i].value \in
                       { <<"p","r","o","c","e","s","o">>, <<"r","o","b","o","t">>, <<"v","a","r","i","a","b","l","e","s">>, <<"c","o","m","e","n","z","a","r">>, <<"f","i","n">>,
                         <<"p","r","o","g","r","a","m","a">>, <<"p","r","o","c","e","s","o","s">>, <<"a","r","e","a","s">>, <<"r","o","b","o","t","s">> }
            /\ lexer.tokens[i].token_type = "ControlSentence" <=>
                   lexer.tokens[i].value \in { <<"s","i">>, <<"s","i","n","o">>, <<"m","i","e","n","t","r","a","s">>, <<"r","e","p","e","t","i","r">> }

\* tokenize has succeeded on a reserved word followed by a word that
\* differs from a reserved word in case only
C19_Witness ==
    /\ lexer.status = "ok"
    /\ Len(lexer.tokens) = 3
    /\ lexer.tokens[1].token_type \in { "Keyword", "ControlSentence" }
    /\ lexer.tokens[2].token_type = "Identifier"
    /\ lexer.tokens[2].value \in { <<"F","i","n">>, <<"S","I">>, <<"R","o","b","o","t">> }

\* the text is one of the six boolean spellings, in any letter case
IsBooleanSpelling(value) ==
    to_lowercase(value) \in { <<"t","r","u","e">>, <<"f","a","l","s","e">>, <<"v","e","r","d","a","d","e","r","o">>, <<"f","a","l","s","o">>, <<"v">>, <<"f">> }

\* the tokens that follow an Assign token: the words assigned
AssignedWords ==
    { i \in 2..Len(lexer.tokens) : lexer.tokens[i - 1].token_type = "Assign" }

\* C20: in the tokens of a program the boolean spellings all have one kind,
\* which is not the kind of a token numero, booleano or of a number, and a
\* program whose assignments each assign one boolean spelling is parsed,
\* each of its assignments with a boolean literal as value.
C20_BooleanSpellings ==
    /\ lexer.status = "ok" =>
           \A i \in 1..Len(lexer.tokens) : \A j \in 1..Len(lexer.tokens) :
               IsBooleanSpelling(lexer.tokens[i].value) =>
                   /\ IsBooleanSpelling(lexer.tokens[j].value) =>
                          lexer.tokens[i].token_type = lexer.tokens[j].token_type
                   /\ (\/ lexer.tokens[j].value \in { <<"n","u","m","e","r","o">>, <<"b","o","o","l","e","a","n","o">> }
                       \/ /\ lexer.tokens[j].value # << >>
                          /\ \A k \in 1..Len(lexer.tokens[j].value) :
                                 is_ascii_digit(lexer.tokens[j].value[k])) =>
                          lexer.tokens[i].token_type # lexer.tokens[j].token_type
    /\ (/\ parsed.res # "none"
        /\ AssignedWords # { }
        /\ \A i \in AssignedWords : IsBooleanSpelling(lexer.tokens[i].value)) =>
           /\ parsed.res = "ok"
           /\ Len(MainInstrucciones(parsed.val)) = Cardinality(AssignedWords)
           /\ \A k \in 1..Len(MainInstrucciones(parsed.val)) :
                  /\ MainInstrucciones(parsed.val)[k].tipo = "Asignacion"
                  /\ MainInstrucciones(parsed.val)[k].valor.tipo = "Booleano"

----------------------------------------------------------------------------
(* Properties of the Program that Parser::parse returns                    *)

\* C21: when parse succeeds the first token is the keyword programa and the
\* second an identifier, which is the name of the Program; and parse fails
\* on tokens that start with another keyword.
C21_ProgramHeader ==
    parsed.res # "none" =>
        /\ parsed.res = "ok" =>
               /\ Len(lexer.tokens) >= 2
               /\ lexer.tokens[1].token_type = "Keyword"
               /\ lexer.tokens[1].value = <<"p","r","o","g","r","a","m","a">>
               /\ lexer.tokens[2].token_type = "Identifier"
               /\ parsed.val.nombre = lexer.tokens[2].value
        /\ (/\ lexer.tokens[1].token_type = "Keyword"
            /\ lexer.tokens[1].value # <<"p","r","o","g","r","a","m","a">>) =>
               parsed.res = "err"

\* the tokens end with the colon of a declaration: the input is cut off
\* before the declaration is complete
EndsInsideDeclaration ==
    /\ Len(lexer.tokens) >= 2
    /\ lexer.tokens[Len(lexer.tokens) - 1].token_type = "Declaration"

\* C22: parse never panics by reading past the last token, and on tokens
\* that end inside a declaration it returns an error.
C22_PrematureEndIsError ==
    parsed.res # "none" =>
        /\ parsed.res # "panic"
        /\ EndsInsideDeclaration => parsed.res = "err"

\* the body of the program is a line `si V` or `repetir 2` followed by two
\* or more lines with one instruction each, no line being indented
IsFlatConstructProgram ==
    /\ IsProgramText(lexer)
    /\ CountType(lexer.tokens, "Indent") = 0
    /\ Cardinality(BodyLines(lexer)) >= 3
    /\ IsHeaderLine(lexer, 3)
    /\ \A j \in BodyLines(lexer) \ { 3 } : IsCallLine(lexer, j)

\* the statements of the body of a si, mientras or repetir
BodyOf(instruccion) ==
    IF instruccion.tipo = "Si" THEN instruccion.entonces ELSE instruccion.cuerpo

\* C23: when no Indent token follows the condition of si, mientras or
\* repetir, the body of the construct is the one statement after the
\* condition, and the statements of the lines after it follow the construct
\* in the enclosing statement list.
C23_SingleStatementBody ==
    (parsed.res # "none" /\ IsFlatConstructProgram) =>
        /\ parsed.res = "ok"
        /\ Len(MainInstrucciones(parsed.val)) = Cardinality(BodyLines(lexer)) - 1
        /\ MainInstrucciones(parsed.val)[1].tipo \in { "Si", "Mientras", "Repetir" }
        /\ Len(BodyOf(MainInstrucciones(parsed.val)[1])) = 1
        /\ BodyOf(MainInstrucciones(parsed.val)[1])[1].nombre = FirstToken(lexer, 4).value
        /\ \A k \in 2..Len(MainInstrucciones(parsed.val)) :
               /\ MainInstrucciones(parsed.val)[k].tipo = "LlamadaFuncion"
               /\ MainInstrucciones(parsed.val)[k].nombre = FirstToken(lexer, k + 3).value

\* the robot types that the robots sections before the instances leave
\* declared: a robots section replaces the declarations of the one before it
DeclaredBefore(leading, declarado) ==
    IF declarado # << >> THEN { declarado }
    ELSE IF leading # << >> /\ leading[1] = <<"r","o","b","o","t","s">> THEN { <<"T","3">> }
    ELSE { }

\* the programs with a `variables` section of robot instances
InstanceSources ==
    { InstanceSource(leading, declarado, first, second) :
          leading \in LeadingSections, declarado \in RobotTypes \cup { << >> },
          first \in InstanceTypes, second \in InstanceTypes \cup { << >> } }

\* C24: in the Program of a successful parse every entry of
\* robots_instanciados has as `tipo` a name of robots_declarados, and an
\* instance whose type no preceding robots section declared makes parse
\* return an error.
C24_InstanceTypeDeclared ==
    /\ parsed.res = "ok" =>
           \A i \in 1..Len(parsed.val.robots_instanciados) :
               Contains(parsed.val.robots_declarados, parsed.val.robots_instanciados[i].tipo)
    /\ (parsed.res \notin { "none", "err" } /\ lexer.chars \in InstanceSources) =>
           \A leading \in LeadingSections : \A declarado \in RobotTypes \cup { << >> } :
           \A first \in InstanceTypes : \A second \in InstanceTypes \cup { << >> } :
               lexer.chars = InstanceSource(leading, declarado, first, second) =>
                   /\ first \in DeclaredBefore(leading, declarado)
                   /\ second \in DeclaredBefore(leading, declarado) \cup { << >> }

\* a program with two instances of a declared robot type has been parsed
C24_Witness ==
    /\ parsed.res = "ok"
    /\ Len(parsed.val.robots_instanciados) = 2
    /\ parsed.val.robots_declarados = << <<"T","1">> >>
    /\ parsed.val.procesos # << >>

\* a program with an instance of an undeclared type has been rejected
C24_WitnessUndeclared ==
    /\ parsed.res = "err"
    /\ lexer.chars = InstanceSource(<< >>, <<"T","1">>, <<"T","2">>, << >>)

----------------------------------------------------------------------------
(* Properties of the scopes of SemanticAnalyzer                             *)

\* the names that occur twice among the names of a list of declarations
Repeated(names) ==
    { names[i] : i \in { k \in 1..Len(names) : \E j \in 1..(k - 1) : names[j] = names[k] } }

NamesOf(nodes) == [i \in 1..Len(nodes) |-> nodes[i].name]

\* the names that a section declares twice in one scope
DeclaredTwice(section) ==
    CASE section.node = "VariablesSection" -> Repeated(NamesOf(section.declarations))
      [] section.node = "ProcesosSection" ->
             Repeated(NamesOf(section.procesos))
                 \cup UNION { Repeated(NamesOf(section.procesos[i].parameters)) :
                                  i \in 1..Len(section.procesos) }
      [] section.node = "RobotsSection" -> Repeated(NamesOf(section.robots))
      [] OTHER -> { }

IsDuplicateError(e, name) ==
    /\ Len(e.message) = 3
    /\ e.message[1] = "Variable '"
    /\ e.message[2] = name
    /\ e.message[3] = "' ya declarada en este ambito"

DuplicateErrors(A, name) == { i \in 1..Len(A.errors) : IsDuplicateError(A.errors[i], name) }

\* every name that the first section declares twice has a duplicate error
DuplicateRecorded ==
    (visiting > 1 /\ ast.body # << >>) =>
        \A name \in DeclaredTwice(ast.body[1]) : DuplicateErrors(analyzer, name) # { }

\* of two declarations of a variable the first stays in the scope, and the
\* declarations after the second are made
FirstDeclarationKept ==
    (/\ visiting > 1
     /\ result = None
     /\ ast.body # << >>
     /\ ast.body[1].node = "VariablesSection") =>
        \A i \in 1..Len(ast.body[1].declarations) :
            LET name == ast.body[1].declarations[i].name
                first == CHOOSE j \in 1..i : ast.body[1].declarations[j].name = name
            IN  /\ name \in DOMAIN analyzer.scope_stack[2]
                /\ analyzer.scope_stack[2][name].var_type
                       = ast.body[1].declarations[first].variable_type

\* a block of statements declares x and then assigns 5 to it
RedeclaresX(block) ==
    /\ Len(block) = 3
    /\ block[1] = VariableDeclaration(<<"x">>, <<"n","u","m","e","r","o">>)

\* the main block declares x again, itself or in a block of its one construct
IsNestedDeclaration(program) ==
    /\ Len(program.body) = 2
    /\ program.body[2].node = "MainBlock"
    /\ \/ RedeclaresX(program.body[2].body)
       \/ /\ Len(program.body[2].body) = 1
          /\ \E block \in { << VariableDeclaration(<<"x">>, <<"n","u","m","e","r","o">>) >> \o AssignTo(<<"x">>, <<"5">>) } :
                 program.body[2].body[1] \in Conditionals(block)

\* x declared again in a nested scope is no duplicate, and the assignment of
\* a number after it finds the numero x of the nested scope
NestedDeclarationAllowed ==
    (visiting > 2 /\ IsNestedDeclaration(ast)) =>
        /\ Len(analyzer.errors) = Cardinality(DeclaredTwice(ast.body[1]))
        /\ \A i \in 1..Len(analyzer.errors) : IsDuplicateError(analyzer.errors[i], <<"x">>)

\* C25: declaring a name that the innermost scope already holds records a
\* duplicate-declaration error, keeps the first declaration and goes on, for
\* variables, parameters, robot types and procesos of the same name; the
\* same name declared in a nested scope is no error, and lookup finds the
\* innermost declaration.
C25_DuplicateDeclaration ==
    /\ DuplicateRecorded
    /\ FirstDeclarationKept
    /\ NestedDeclarationAllowed

----------------------------------------------------------------------------
(* Properties of the checks of SemanticAnalyzer on statements               *)

IsUninitialisedError(e, name) ==
    /\ Len(e.message) = 3
    /\ e.message[1] = "Variable '"
    /\ e.message[2] = name
    /\ e.message[3] \in { "' no inicializada", "' no inicializada en condicion",
                          "' no inicializada en contador de repeticion" }

UninitialisedErrors(A, name) ==
    { i \in 1..Len(A.errors) : IsUninitialisedError(A.errors[i], name) }

\* a variables section, which declares x, and a main block
DeclaresThenRuns(program) ==
    /\ Len(program.body) = 2
    /\ program.body[1].node = "VariablesSection"
    /\ program.body[2].node = "MainBlock"

ReadX == [node |-> "Value", value |-> <<"x">>]

\* the main block assigns 5 to x in the block of a construct and reads x
\* after the construct
AssignsInBlockThenReads(program) ==
    /\ DeclaresThenRuns(program)
    /\ \E construct \in Conditionals(AssignTo(<<"x">>, <<"5">>)) :
           program.body[2].body = << construct, ReadX >>

\* the main block assigns 5 to x outside every construct and then reads x
AssignsThenReads(program) ==
    /\ DeclaresThenRuns(program)
    /\ program.body[2].body = AssignTo(<<"x">>, <<"5">>) \o << ReadX >>

\* the main block only reads x
OnlyReads(program) ==
    /\ DeclaresThenRuns(program)
    /\ program.body[2].body = << ReadX >>

\* C26: a variable assigned only in the block of a si, sino, mientras or
\* repetir is not initialised after the block, so that a read of it after
\* the block records the uninitialised-variable error; after an assignment
\* outside every block the read records no such error.
C26_ConditionalAssignmentNotInitialised ==
    visiting > 2 =>
        /\ AssignsInBlockThenReads(ast) => UninitialisedErrors(analyzer, <<"x">>) # { }
        /\ OnlyReads(ast) => UninitialisedErrors(analyzer, <<"x">>) # { }
        /\ AssignsThenReads(ast) => UninitialisedErrors(analyzer, <<"x">>) = { }

\* the construct that ends the main block of a program, if any
LastConstruct(program) == program.body[2].body[Len(program.body[2].body)]

\* the main block is `x := 5` or `x := V`, then one construct whose block is
\* `mover`, and x is declared once, with the type of the value assigned to it
EndsWithConstruct(program, node) ==
    /\ DeclaresThenRuns(program)
    /\ Len(program.body[1].declarations) = 1
    /\ program.body[2].body # << >>
    /\ LastConstruct(program).node = node
    /\ \/ /\ program.body[2].body = AssignTo(<<"x">>, <<"5">>) \o << LastConstruct(program) >>
          /\ program.body[1].declarations[1].variable_type = <<"n","u","m","e","r","o">>
       \/ /\ program.body[2].body = AssignTo(<<"x">>, <<"V">>) \o << LastConstruct(program) >>
          /\ program.body[1].declarations[1].variable_type = <<"b","o","o","l","e","a","n","o">>

\* the type of a condition or count of ConditionWords, x having the type
\* var_type
TypeOfWord(word, var_type) ==
    IF word \in { <<"5">>, <<"0">> } THEN <<"n","u","m","e","r","o">>
    ELSE IF word = <<"x">> THEN var_type
    ELSE <<"b","o","o","l","e","a","n","o">>

\* the operands of the condition have the types its operator takes
WellTypedWord(word, var_type) ==
    /\ word = <<"x"," ","<"," ","5">> => var_type = <<"n","u","m","e","r","o">>
    /\ word = <<"x"," ","&"," ","V">> => var_type = <<"b","o","o","l","e","a","n","o">>

\* C27: the condition of a si and of a mientras must have type booleano, so
\* that the number 5 or a numero variable alone as condition records an
\* error; the count of a repetir must be numeric, so that a booleano
\* variable or a boolean literal as count records an error.
C27_ConditionAndCountTypes ==
    visiting > 2 =>
        /\ \A node \in { "IfStatement", "WhileStatement" } :
               (/\ EndsWithConstruct(ast, node)
                /\ TypeOfWord(LastConstruct(ast).condition.expression,
                              ast.body[1].declarations[1].variable_type) # <<"b","o","o","l","e","a","n","o">>)
               => analyzer.errors # << >>
        /\ (/\ EndsWithConstruct(ast, "RepeatStatement")
            /\ TypeOfWord(LastConstruct(ast).count,
                          ast.body[1].declarations[1].variable_type) # <<"n","u","m","e","r","o">>)
           => analyzer.errors # << >>

----------------------------------------------------------------------------
(* Properties of the main loop of Lexer::tokenize                           *)

\* an iteration of the main loop of tokenize is about to run
InMainLoop == Arm(lexer) \notin { "end_of_input", "returned" }

\* the loop `while self.position < self.chars.len()` is left by `?` or by
\* its condition
Progresses(L, after) ==
    \/ after.status = "err"
    \/ after.position > L.position

\* the indent stack ends at the sentinel 0
EndsAtSentinel(L) == L.indent_stack # << >> /\ L.indent_stack[1] = 0

\* C28: tokenize terminates on every text: every iteration of its main loop
\* returns an error, advances position, or clears at_line_start and the
\* iteration after it advances position; the dedent loop of
\* handle_indentation stops at the sentinel 0 of the indent stack.
C28_TokenizeTerminates ==
    /\ [][InMainLoop =>
              /\ \/ Progresses(lexer, lexer')
                 \/ /\ lexer.at_line_start
                    /\ ~lexer'.at_line_start
                    /\ Arm(lexer') \notin { "end_of_input", "returned" }
                    /\ Progresses(lexer', Step(lexer'))
              /\ Arm(lexer) = "indentation" => EndsAtSentinel(lexer')]_vars
    /\ <>(lexer.status # "scanning")

\* an iteration has cleared at_line_start and has left position where it was
C28_Witness ==
    /\ lexer.status = "scanning"
    /\ lexer.position = 0
    /\ ~lexer.at_line_start
    /\ Len(lexer.chars) > 1

\* tokenize has returned after a dedent loop that popped a level
C28_WitnessDedent ==
    /\ lexer.status = "scanning"
    /\ CountType(lexer.tokens, "Dedent") > 0
    /\ Len(lexer.indent_stack) > 1

LayoutCount(tokens) == CountType(tokens, "Indent") + CountType(tokens, "Dedent")

\* C29: an iteration of the main loop adds Indent or Dedent tokens only
\* for the whitespace before the first token of a line: whitespace after a
\* token of the same line, of whatever kind, adds none.
C29_LayoutOnlyBeforeFirstToken ==
    [][(InMainLoop /\ LayoutCount(lexer'.tokens) > LayoutCount(lexer.tokens)) =>
           LineTokens(lexer.tokens, lexer.line) = << >>]_vars

StrictlyIncreasing(stack) == \A k \in 1..(Len(stack) - 1) : stack[k] < stack[k + 1]

\* the main loop has left a line that is not blank to handle_indentation,
\* which has returned Ok
HandledIndentation(L, after) ==
    /\ Arm(L) = "indentation"
    /\ after.status = "scanning"
    /\ after.position < Len(after.chars)
    /\ after.chars[after.position + 1] # "\n"

\* C30: in every state of tokenize the indent stack is not empty, has the
\* sentinel 0 at the bottom and increases strictly to the top, and the
\* Indent tokens pushed so far are as many more than the Dedent tokens as
\* the stack has levels above the sentinel; after handle_indentation has
\* returned Ok on a line that is not blank, the top of the stack is
\* current_indent.
C30_IndentStackShape ==
    /\ [](/\ EndsAtSentinel(lexer)
          /\ StrictlyIncreasing(lexer.indent_stack)
          /\ CountType(lexer.tokens, "Indent") - CountType(lexer.tokens, "Dedent")
                 = Len(lexer.indent_stack) - 1)
    /\ [][HandledIndentation(lexer, lexer') =>
              Last(lexer'.indent_stack) = lexer'.current_indent]_vars

\* the stack holds two levels above the sentinel, a Dedent has been pushed
\* before, and the main loop goes on
C30_Witness ==
    /\ lexer.status = "scanning"
    /\ Len(lexer.indent_stack) = 3
    /\ CountType(lexer.tokens, "Dedent") > 0
    /\ ~lexer.at_line_start
    /\ lexer.position > 0
    /\ lexer.chars[lexer.position] = " "

============================================================================
